---- MODULE Spec2Model ----
(***************************************************************************)
(* mktorrent-rs: the hybrid (BEP-3 + BEP-47 + BEP-52) metadata builder of  *)
(* src/src/torrent_meta_v2.rs as a state machine.                          *)
(*                                                                         *)
(* Byte counts are kept in a length unit of 8 KiB, so that a file can end  *)
(* inside a 16 KiB Merkle block: MERKLE_PIECE_SIZE (16 KiB) is 2 units.    *)
(* The piece-size limits and MAX_JOB_BYTES are scaled down with it (their  *)
(* order min < default < max <= MAX_JOB_BYTES is the source's), so that a  *)
(* file of a few units already spans several v1 pieces and several jobs.   *)
(*                                                                         *)
(* A digest is the symbolic term of what was fed to the hasher:            *)
(*   <<"sha1", file, segments>>, <<"sha256", file, segments>> for data,    *)
(*   <<"node", left, right>> for SHA-256 of two concatenated digests,      *)
(*   <<"zero">> for a slot of zero bytes.                                  *)
(***************************************************************************)
EXTENDS Integers, Sequences, FiniteSets, TLC

\* ------------------------------------------------------------------ bounds
MaxFiles == 2
MaxThreads == 2

\* ------------------------------------------------- program constants (units)
MERKLE_PIECE_SIZE == 2
MIN_PIECE_SIZE == 2
MAX_PIECE_SIZE == 8
DEFAULT_PIECE_SIZE == 4
MAX_JOB_BYTES == 8
SHA1_LEN == 20
SHA256_LEN == 32

VARIABLES
    phase,            \* position of the main thread in main / new / hash
    panic,            \* "" or the place that panicked
    walked_files,     \* WalkedDir.files: the sorted input list
    announces, nodes, webseeds, private, user_piece_size,
    thread_num, write_v1, write_v2,
    no_padding,       \* CliOptions.no_padding
    unreadable,       \* the files (by position) that cannot be opened or mapped
    files,            \* TorrentMetadata.files (FileMetadata without the buffers)
    hash_v1,          \* per file: the slots of FileMetadata.hash_v1
    merkle_tree,      \* per file: FileMetadata.merkle_tree, a sequence of layers
    piece_size, piece_factor, piece_level, total_bytes,
    plan_i,           \* the file the planner loop is at
    tasks,            \* the SegQueue of HashJob
    planned,          \* history: every job pushed so far, in push order
    workers,          \* per worker thread: its locals
    writes_v1, writes_v2,  \* history: how often each slot was written
    ret,              \* the BencodeValue hash() returns
    hasher,           \* the Bep3Hasher of the unpadded v1-only path
    hash_i,           \* the file the v1-only hash loop is at
    out,              \* the bytes main writes to the output file
    progress_notify,  \* is the Sender made by mpsc::channel() alive
    progress_rx,      \* the channel: the byte counts sent and not yet received
    ui_thread         \* the UI thread: its position, the bytes it reported

cfgvars == <<walked_files, announces, nodes, webseeds, private,
             user_piece_size, thread_num, write_v1, write_v2, no_padding,
             unreadable>>
v1vars == <<hasher, hash_i>>
metavars == <<files, piece_size, piece_factor, piece_level, total_bytes>>
progvars == <<progress_notify, progress_rx, ui_thread>>
vars == <<phase, panic, cfgvars, metavars, hash_v1, merkle_tree, plan_i,
          tasks, planned, workers, writes_v1, writes_v2, ret, v1vars, out,
          progvars>>

\* ----------------------------------------------------------------- helpers
\* variants: min keeps its second argument, its first argument
MinTakesSecond(a, b) == b
MinTakesFirst(a, b) == a
Min(a, b) == IF a < b THEN a ELSE b

RECURSIVE SumLen(_)
SumLen(fs) == IF fs = <<>> THEN 0 ELSE Head(fs).len + SumLen(Tail(fs))

RECURSIVE Pow2(_)
Pow2(n) == IF n = 0 THEN 1 ELSE 2 * Pow2(n - 1)

\* (x & (x - 1)) == 0 for x >= 1
RECURSIVE IsPow2(_)
IsPow2(x) == x = 1 \/ (x > 1 /\ x % 2 = 0 /\ IsPow2(x \div 2))

Some(x) == [some |-> TRUE, val |-> x]
None == [some |-> FALSE, val |-> 0]

ZeroSlot == <<"zero">>

\* ------------------------------------------------------ FileMetadata::new
FileMetadataNew(f, ps) ==
    IF f.len = 0
    THEN [len |-> 0, path |-> f.path, merkle_piece_count |-> 0,
          hash_v1_piece_count |-> 0, padding |-> 0,
          is_last_data_file |-> FALSE]
    ELSE [len |-> f.len, path |-> f.path,
          merkle_piece_count |-> (f.len - 1) \div MERKLE_PIECE_SIZE + 1,
          hash_v1_piece_count |-> (f.len - 1) \div ps + 1,
          padding |-> IF f.len % ps = 0 THEN 0 ELSE ps - (f.len % ps),
          is_last_data_file |-> FALSE]

\* vec![0; count * 20] / vec![vec![0; count * 32]] (empty vectors for l == 0)
ZeroSlots(n) == [k \in 1..n |-> ZeroSlot]
InitHashV1(fm) == ZeroSlots(fm.hash_v1_piece_count)
InitMerkleTree(fm) ==
    IF fm.len = 0 THEN <<>> ELSE <<ZeroSlots(fm.merkle_piece_count)>>

\* the loop that finds piece_level: the level with 16 KiB * 2^level = piece_size,
\* -1 when tmp overshoots ("incorrect piece size")
RECURSIVE FindLevel(_, _, _)
FindLevel(tmp, level, ps) ==
    IF tmp = ps THEN level
    ELSE IF tmp < ps THEN FindLevel(tmp * 2, level + 1, ps)
    ELSE -1

\* `for i in ret.files.len() - 1..=0`: the 0-based indices the range yields
LastFileRange(n) == (n - 1)..0

MarkLastDataFile(fs) ==
    [k \in 1..Len(fs) |->
        IF (k - 1) \in LastFileRange(Len(fs)) /\ fs[k].len > 0
        THEN [fs[k] EXCEPT !.is_last_data_file = TRUE, !.padding = 0]
        ELSE fs[k]]

\* which check of TorrentMetadata::new fails first, "" when none does
NewPanic ==
    IF user_piece_size.some /\ (user_piece_size.val < 1
                                \/ ~IsPow2(user_piece_size.val))
        THEN "piece size not a power of two"
    ELSE IF user_piece_size.some /\ user_piece_size.val < MIN_PIECE_SIZE
        THEN "piece size too small"
    ELSE IF user_piece_size.some /\ user_piece_size.val > MAX_PIECE_SIZE
        THEN "piece size too large"
    ELSE IF walked_files = <<>> THEN "No file selected"
    ELSE IF FindLevel(MERKLE_PIECE_SIZE, 0,
                      IF user_piece_size.some THEN user_piece_size.val
                      ELSE DEFAULT_PIECE_SIZE) < 0
        THEN "incorrect piece size"
    ELSE IF announces = <<>> /\ nodes = <<>> THEN "no announce and no node"
    ELSE ""

New ==
    /\ phase = "start"
    /\ IF NewPanic # ""
       THEN /\ phase' = "panicked"
            /\ panic' = NewPanic
            /\ UNCHANGED <<metavars, hash_v1, merkle_tree>>
       ELSE LET ps == IF user_piece_size.some THEN user_piece_size.val
                      ELSE DEFAULT_PIECE_SIZE
                lvl == FindLevel(MERKLE_PIECE_SIZE, 0, ps)
                fms == [k \in 1..Len(walked_files) |->
                           FileMetadataNew(walked_files[k], ps)]
            IN  /\ phase' = "constructed"
                /\ panic' = ""
                /\ total_bytes' = SumLen(walked_files)
                /\ piece_size' = ps
                /\ piece_level' = lvl
                /\ piece_factor' = Pow2(lvl)
                /\ files' = MarkLastDataFile(fms)
                /\ hash_v1' = [k \in 1..Len(fms) |-> InitHashV1(fms[k])]
                /\ merkle_tree' = [k \in 1..Len(fms) |-> InitMerkleTree(fms[k])]
    /\ UNCHANGED <<v1vars, out, progvars, cfgvars, plan_i, tasks, planned, workers,
                   writes_v1, writes_v2, ret>>

\* ------------------------------------------------- hash(): the job planner
\* variant: the remainder of the division is dropped
TaskPiecesNoRemainder(count, num_tasks) ==
    [k \in 1..num_tasks |-> count \div num_tasks]

\* task_pieces: the first (count % num_tasks) tasks get one piece more
TaskPieces(count, num_tasks) ==
    [k \in 1..num_tasks |->
        IF k <= count % num_tasks THEN count \div num_tasks + 1
        ELSE count \div num_tasks]

NumTasks(len) == (len - 1) \div MAX_JOB_BYTES + 1

\* variant: no job zero-fills its last piece
ZeroFillFlagNever(idx, n_tasks, is_last_data_file) == FALSE

\* v1_last_hash_zero_fill of the job at 0-based position idx of n_tasks
ZeroFillFlag(idx, n_tasks, is_last_data_file) ==
    ~((idx = n_tasks - 1) /\ is_last_data_file)

\* split_at_mut(mid): the front part handed to the job, and the rest the
\* planner keeps (`v1_hash = rem_v1_hash`)
SplitFront(slice, mid) == [start |-> slice.start, len |-> mid]
\* variant: the planner keeps the whole slice instead of the rest
SplitRestKeepsAll(slice, mid) == slice
SplitRest(slice, mid) == [start |-> slice.start + mid, len |-> slice.len - mid]

\* The loop over task_pieces from 1-based position k on. st holds the loop's
\* running values: piece_offset, left_merkle_piece, and the remaining slices
\* v1_hash / v2_hash as (start, length) in bytes of the file's buffers.
\* The result is [jobs, panic]; panic names the check that failed.
RECURSIVE PlanLoop(_, _, _, _, _)
PlanLoop(i, tp, k, st, acc) ==
    IF k > Len(tp) THEN [jobs |-> acc, panic |-> ""]
    ELSE IF st.left_merkle_piece = 0
        THEN [jobs |-> acc, panic |-> "left_merkle_piece==0"]
    ELSE
    LET f == files[i]
        this_v1_pieces == tp[k]
        this_v2_pieces == Min(this_v1_pieces * piece_factor, st.left_merkle_piece)
        right_boundary == Min((st.piece_offset + this_v1_pieces) * piece_size, f.len)
        data_len == right_boundary - st.piece_offset * piece_size
        v1_mid == this_v1_pieces * SHA1_LEN
        v2_mid == this_v2_pieces * SHA256_LEN
        job == [file |-> i,
                offset |-> st.piece_offset * piece_size,
                data_len |-> data_len,
                v1_pieces |-> this_v1_pieces,
                v1_piece_size |-> piece_size,
                v1_hash |-> SplitFront(st.v1_hash, v1_mid),
                v1_last_hash_zero_fill |->
                    ZeroFillFlag(k - 1, Len(tp), f.is_last_data_file),
                v2_pieces |-> this_v2_pieces,
                v2_hash |-> SplitFront(st.v2_hash, v2_mid)]
    IN  IF v1_mid > st.v1_hash.len \/ v2_mid > st.v2_hash.len
        THEN [jobs |-> acc, panic |-> "split_at_mut: mid > len"]
        ELSE PlanLoop(i, tp, k + 1,
                 [piece_offset |-> st.piece_offset + this_v1_pieces,
                  left_merkle_piece |-> st.left_merkle_piece - this_v2_pieces,
                  v1_hash |-> SplitRest(st.v1_hash, v1_mid),
                  v2_hash |-> SplitRest(st.v2_hash, v2_mid)],
                 Append(acc, job))

PlanJobs(i) ==
    LET f == files[i]
    IN  PlanLoop(i, TaskPieces(f.hash_v1_piece_count, NumTasks(f.len)), 1,
            [piece_offset |-> 0,
             left_merkle_piece |-> f.merkle_piece_count,
             v1_hash |-> [start |-> 0, len |-> Len(hash_v1[i]) * SHA1_LEN],
             v2_hash |-> [start |-> 0,
                          len |-> Len(merkle_tree[i][1]) * SHA256_LEN]],
            <<>>)

\* hash() entry: assert!(write_v1 || write_v2), an empty queue
HashBegin ==
    /\ phase = "constructed"
    /\ IF write_v1 \/ write_v2
       THEN phase' = "planning" /\ panic' = ""
       ELSE phase' = "panicked" /\ panic' = "assert write_v1 || write_v2"
    /\ plan_i' = 1
    /\ tasks' = <<>>
    /\ planned' = <<>>
    /\ UNCHANGED <<v1vars, out, progvars, cfgvars, metavars, hash_v1, merkle_tree, workers,
                   writes_v1, writes_v2, ret>>

\* one iteration of `for f in &mut self.files`
PlanFile ==
    /\ phase = "planning"
    /\ plan_i <= Len(files)
    /\ IF files[plan_i].len = 0
       THEN UNCHANGED <<phase, panic, tasks, planned>>
       ELSE LET r == PlanJobs(plan_i)
            IN  /\ tasks' = tasks \o r.jobs
                /\ planned' = planned \o r.jobs
                /\ IF r.panic = "" THEN UNCHANGED <<phase, panic>>
                   ELSE phase' = "panicked" /\ panic' = r.panic
    /\ plan_i' = plan_i + 1
    /\ UNCHANGED <<v1vars, out, progvars, cfgvars, metavars, hash_v1, merkle_tree, workers,
                   writes_v1, writes_v2, ret>>

\* ---------------------------------------------- hash(): the worker threads
\* A hasher context is the sequence of segments fed to it since the last
\* reset: <<"data", a, b>> for the file's bytes [a, b), <<"zeros", n>> for n
\* zero bytes. Feeding [b, c) after [a, b) is feeding [a, c).
NewHasher == <<>>

\* variant: the context is reset by every update
UpdateDataForgets(ctx, a, b) == << <<"data", a, b>> >>

UpdateData(ctx, a, b) ==
    IF ctx # <<>> /\ ctx[Len(ctx)][1] = "data" /\ ctx[Len(ctx)][3] = a
    THEN [ctx EXCEPT ![Len(ctx)] = <<"data", ctx[Len(ctx)][2], b>>]
    ELSE Append(ctx, <<"data", a, b>>)

UpdateZeros(ctx, n) == Append(ctx, <<"zeros", n>>)

Sha1Finalize(file, ctx) == <<"sha1", file, ctx>>
Sha256Finalize(file, ctx) == <<"sha256", file, ctx>>

NoJob ==
    [file |-> 0, offset |-> 0, data_len |-> 0, v1_pieces |-> 0,
     v1_piece_size |-> 0, v1_hash |-> [start |-> 0, len |-> 0],
     v1_last_hash_zero_fill |-> FALSE, v2_pieces |-> 0,
     v2_hash |-> [start |-> 0, len |-> 0]]

FreshWorker ==
    [pc |-> "pop", job |-> NoJob, cursor |-> 0,
     v1_hasher |-> NewHasher, v2_hasher |-> NewHasher,
     finished_v1_pieces |-> 0, finished_v2_pieces |-> 0, byte_count |-> 0]

\* the UI thread before scope() spawns it
NoUiThread == [pc |-> "none", reported |-> 0]

\* the live Senders of the channel: the original (0) and the clone each
\* worker closure owns until it ends, by return or by panic
Senders ==
    (IF progress_notify THEN {0} ELSE {})
        \cup {w \in DOMAIN workers : workers[w].pc \notin {"exited", "panicked"}}

\* variant: recv() never fails
RecvNeverFails == FALSE

\* progress_rx.recv() returns Err: nothing is queued and no Sender is left
RecvDisconnected == progress_rx = <<>> /\ Senders = {}

\* progress.send(bytes): queued, unless the Receiver is gone (Err, ignored)
Send(q, bytes) == IF ui_thread.pc = "exited" THEN q ELSE Append(q, bytes)

\* planning is over: hash_begin, scope(), the channel is made, the UI thread
\* and the worker threads (each with a clone of the Sender) are spawned
StartScope ==
    /\ phase = "planning"
    /\ plan_i > Len(files)
    /\ phase' = "hashing"
    /\ workers' = [w \in 1..thread_num |-> FreshWorker]
    /\ writes_v1' = [i \in 1..Len(files) |-> [k \in 1..Len(hash_v1[i]) |-> 0]]
    /\ writes_v2' = [i \in 1..Len(files) |->
                        [k \in 1..files[i].merkle_piece_count |-> 0]]
    /\ progress_notify' = TRUE
    /\ progress_rx' = <<>>
    /\ ui_thread' = [pc |-> "recv", reported |-> 0]
    /\ UNCHANGED <<v1vars, out, panic, cfgvars, metavars, hash_v1, merkle_tree, plan_i,
                   tasks, planned, ret>>

\* drop(progress_notify): the closure given to scope() ends
DropNotify ==
    /\ phase = "hashing"
    /\ progress_notify
    /\ progress_notify' = FALSE
    /\ UNCHANGED <<v1vars, out, phase, panic, cfgvars, metavars, hash_v1, merkle_tree,
                   plan_i, tasks, planned, workers, writes_v1, writes_v2, ret,
                   progress_rx, ui_thread>>

\* one iteration of the UI thread's loop: recv() blocks while the channel is
\* empty and a Sender lives, Ok(b) goes to progress.hash_progress(b), Err
\* ends the thread
UiRecv ==
    /\ phase = "hashing"
    /\ ui_thread.pc = "recv"
    /\ IF RecvDisconnected
       THEN /\ ui_thread' = [ui_thread EXCEPT !.pc = "exited"]
            /\ UNCHANGED progress_rx
       ELSE /\ progress_rx # <<>>
            /\ progress_rx' = Tail(progress_rx)
            /\ ui_thread' = [ui_thread EXCEPT !.reported = @ + Head(progress_rx)]
    /\ UNCHANGED <<v1vars, out, phase, panic, cfgvars, metavars, hash_v1, merkle_tree,
                   plan_i, tasks, planned, workers, writes_v1, writes_v2, ret,
                   progress_notify>>

\* tasks.pop(): None ends the thread; otherwise the job's file is opened and
\* mapped (File::open(..).unwrap(), map(..).unwrap(): a failure panics the
\* thread) and the locals are set up
WorkerPop(w) ==
    /\ phase = "hashing"
    /\ workers[w].pc = "pop"
    /\ IF tasks = <<>>
       THEN /\ workers' = [workers EXCEPT ![w].pc = "exited"]
            /\ UNCHANGED tasks
       ELSE IF Head(tasks).file \in unreadable
       THEN /\ tasks' = Tail(tasks)
            /\ workers' = [workers EXCEPT ![w].pc = "panicked"]
       ELSE /\ tasks' = Tail(tasks)
            /\ workers' = [workers EXCEPT ![w] =
                   [pc |-> "loop", job |-> Head(tasks),
                    cursor |-> Head(tasks).offset,
                    v1_hasher |-> NewHasher, v2_hasher |-> NewHasher,
                    finished_v1_pieces |-> 0, finished_v2_pieces |-> 0,
                    byte_count |-> workers[w].byte_count]]
    /\ UNCHANGED <<v1vars, out, progvars, phase, panic, cfgvars, metavars, hash_v1, merkle_tree,
                   plan_i, planned, writes_v1, writes_v2, ret>>

\* slice[l..r] in range of the slice (else copy_from_slice's index panics)
InSlice(slice, l, r) == l <= r /\ r <= slice.len

\* variant: the slice is taken to start at the start of the buffer
SlotOfWholeBuffer(slice, l, width) == l \div width + 1

\* the slot of the file's buffer that bytes [l, l + width) of the slice are
SlotOf(slice, l, width) == (slice.start + l) \div width + 1

\* variant: every full block is taken to end a v1 piece
EndsV1PieceAlways(n, factor) == TRUE

\* is v2 piece number n (counted from 1 within the job) also the end of a
\* v1 piece
EndsV1Piece(n, factor) == (n % factor) = 0

\* one iteration of `while cursor < data_rbound`
WorkerChunk(w) ==
    /\ phase = "hashing"
    /\ workers[w].pc = "loop"
    /\ LET me == workers[w]
           job == me.job
           data_rbound == job.offset + job.data_len
           bytes == IF me.cursor + MERKLE_PIECE_SIZE > data_rbound
                    THEN data_rbound - me.cursor
                    ELSE MERKLE_PIECE_SIZE
           v1h == UpdateData(me.v1_hasher, me.cursor, me.cursor + bytes)
           v2h == UpdateData(me.v2_hasher, me.cursor, me.cursor + bytes)
           full == bytes = MERKLE_PIECE_SIZE
           l2 == me.finished_v2_pieces * SHA256_LEN
           r2 == (me.finished_v2_pieces + 1) * SHA256_LEN
           fin2 == me.finished_v2_pieces + 1
           also1 == full /\ EndsV1Piece(fin2, piece_factor)
           l1 == me.finished_v1_pieces * SHA1_LEN
           r1 == (me.finished_v1_pieces + 1) * SHA1_LEN
           s2 == SlotOf(job.v2_hash, l2, SHA256_LEN)
           s1 == SlotOf(job.v1_hash, l1, SHA1_LEN)
           bad == \/ me.cursor + bytes > files[job.file].len
                  \/ full /\ ~InSlice(job.v2_hash, l2, r2)
                  \/ also1 /\ ~InSlice(job.v1_hash, l1, r1)
       IN  /\ me.cursor < data_rbound
           /\ progress_rx' = IF me.cursor + bytes > files[job.file].len
                             THEN progress_rx
                             ELSE Send(progress_rx, bytes)
           /\ IF bad
              THEN /\ workers' = [workers EXCEPT ![w].pc = "panicked"]
                   /\ UNCHANGED <<hash_v1, merkle_tree, writes_v1, writes_v2>>
              ELSE /\ workers' = [workers EXCEPT ![w] =
                          [me EXCEPT
                             !.cursor = me.cursor + bytes,
                             !.byte_count = me.byte_count + bytes,
                             !.v2_hasher = IF full THEN NewHasher ELSE v2h,
                             !.finished_v2_pieces = IF full THEN fin2 ELSE @,
                             !.v1_hasher = IF also1 THEN NewHasher ELSE v1h,
                             !.finished_v1_pieces = IF also1 THEN @ + 1 ELSE @]]
                   /\ IF full
                      THEN /\ merkle_tree' = [merkle_tree EXCEPT
                                  ![job.file][1][s2] = Sha256Finalize(job.file, v2h)]
                           /\ writes_v2' = [writes_v2 EXCEPT ![job.file][s2] = @ + 1]
                      ELSE UNCHANGED <<merkle_tree, writes_v2>>
                   /\ IF also1
                      THEN /\ hash_v1' = [hash_v1 EXCEPT
                                  ![job.file][s1] = Sha1Finalize(job.file, v1h)]
                           /\ writes_v1' = [writes_v1 EXCEPT ![job.file][s1] = @ + 1]
                      ELSE UNCHANGED <<hash_v1, writes_v1>>
    /\ UNCHANGED <<v1vars, out, phase, panic, cfgvars, metavars, plan_i, tasks,
                   planned, ret, progress_notify, ui_thread>>

\* after the loop: the assertion on cursor, the short last v2 block, the
\* short last v1 piece, the two assertions on the counters
WorkerFinish(w) ==
    /\ phase = "hashing"
    /\ workers[w].pc = "loop"
    /\ LET me == workers[w]
           job == me.job
           hash_rbound == job.offset + job.v1_pieces * job.v1_piece_size
           data_rbound == job.offset + job.data_len
           cursor == me.cursor
           tail2 == cursor % MERKLE_PIECE_SIZE # 0
           l2 == me.finished_v2_pieces * SHA256_LEN
           r2 == (me.finished_v2_pieces + 1) * SHA256_LEN
           fin2 == IF tail2 THEN me.finished_v2_pieces + 1
                   ELSE me.finished_v2_pieces
           tail1 == cursor # hash_rbound
           v1h == IF tail1 /\ job.v1_last_hash_zero_fill
                  THEN UpdateZeros(me.v1_hasher, hash_rbound - cursor)
                  ELSE me.v1_hasher
           l1 == me.finished_v1_pieces * SHA1_LEN
           r1 == (me.finished_v1_pieces + 1) * SHA1_LEN
           fin1 == IF tail1 THEN me.finished_v1_pieces + 1
                   ELSE me.finished_v1_pieces
           s2 == SlotOf(job.v2_hash, l2, SHA256_LEN)
           s1 == SlotOf(job.v1_hash, l1, SHA1_LEN)
           bad == \/ cursor > hash_rbound
                  \/ tail2 /\ ~InSlice(job.v2_hash, l2, r2)
                  \/ tail1 /\ ~InSlice(job.v1_hash, l1, r1)
                  \/ fin1 # job.v1_pieces
                  \/ fin2 # job.v2_pieces
       IN  /\ cursor >= data_rbound
           /\ IF cursor > hash_rbound
              THEN UNCHANGED <<hash_v1, merkle_tree, writes_v1, writes_v2>>
              ELSE /\ IF tail2 /\ InSlice(job.v2_hash, l2, r2)
                      THEN /\ merkle_tree' = [merkle_tree EXCEPT
                                  ![job.file][1][s2] =
                                      Sha256Finalize(job.file, me.v2_hasher)]
                           /\ writes_v2' = [writes_v2 EXCEPT ![job.file][s2] = @ + 1]
                      ELSE UNCHANGED <<merkle_tree, writes_v2>>
                   /\ IF tail1 /\ ~(tail2 /\ ~InSlice(job.v2_hash, l2, r2))
                            /\ InSlice(job.v1_hash, l1, r1)
                      THEN /\ hash_v1' = [hash_v1 EXCEPT
                                  ![job.file][s1] = Sha1Finalize(job.file, v1h)]
                           /\ writes_v1' = [writes_v1 EXCEPT ![job.file][s1] = @ + 1]
                      ELSE UNCHANGED <<hash_v1, writes_v1>>
           /\ workers' = [workers EXCEPT ![w] =
                  IF bad THEN [me EXCEPT !.pc = "panicked"]
                  ELSE [me EXCEPT !.pc = "pop",
                                  !.finished_v1_pieces = fin1,
                                  !.finished_v2_pieces = fin2,
                                  !.v1_hasher = NewHasher,
                                  !.v2_hasher = NewHasher]]
    /\ UNCHANGED <<v1vars, out, progvars, phase, panic, cfgvars, metavars, plan_i, tasks, planned, ret>>

\* variant: the scope waits for its first thread alone
ScopeJoinsFirst == workers[1].pc \in {"exited", "panicked"}

\* scope() returns when its closure and every thread spawned in it have ended
ScopeJoined ==
    /\ ~progress_notify
    /\ ui_thread.pc = "exited"
    /\ \A w \in DOMAIN workers : workers[w].pc \in {"exited", "panicked"}

\* the scope joins its threads; a panicked thread makes scope() return Err,
\* which hash() unwraps
EndScope ==
    /\ phase = "hashing"
    /\ ScopeJoined
    /\ IF \E w \in DOMAIN workers : workers[w].pc = "panicked"
       THEN phase' = "panicked" /\ panic' = "worker thread panicked"
       ELSE phase' = "hashed" /\ panic' = ""
    /\ UNCHANGED <<v1vars, out, progvars, cfgvars, metavars, hash_v1, merkle_tree, plan_i, tasks,
                   planned, workers, writes_v1, writes_v2, ret>>

\* ------------------------------------------------ hash(): merkle completion
FILLER_LEVELS == 50

Node(l, r) == <<"node", l, r>>

\* filler_sha256[level]
RECURSIVE Filler(_)
Filler(level) ==
    IF level = 0 THEN ZeroSlot ELSE Node(Filler(level - 1), Filler(level - 1))

\* variant: a lone final hash is paired with the all-zero leaf at every level
NextLayerZeroLeaf(src, level) ==
    LET n == Len(src)
        pairs == [i \in 1..(n \div 2) |-> Node(src[2 * i - 1], src[2 * i])]
    IN  IF n > 1 /\ n % 2 # 0
        THEN Append(pairs, Node(src[n], ZeroSlot))
        ELSE pairs

\* dst of one pass of the `for level in 0..` loop over the layer src
NextLayer(src, level) ==
    LET n == Len(src)
        pairs == [i \in 1..(n \div 2) |-> Node(src[2 * i - 1], src[2 * i])]
    IN  IF n > 1 /\ n % 2 # 0
        THEN Append(pairs, Node(src[n], Filler(level)))
        ELSE pairs

\* the loop from `level` on; [tree, panic]
RECURSIVE CompleteFrom(_, _)
CompleteFrom(tree, level) ==
    IF level + 1 > Len(tree)
        THEN [tree |-> tree, panic |-> "merkle_tree.get(level) is None"]
    ELSE IF Len(tree[level + 1]) = 1
        THEN [tree |-> tree, panic |-> "assert src.len() != 32"]
    ELSE IF Len(tree[level + 1]) % 2 # 0 /\ level >= FILLER_LEVELS
        THEN [tree |-> tree, panic |-> "filler_sha256.get(level) is None"]
    ELSE LET dst == NextLayer(tree[level + 1], level)
             grown == Append(tree, dst)
         IN  IF Len(dst) = 1 THEN [tree |-> grown, panic |-> ""]
             ELSE CompleteFrom(grown, level + 1)

\* one file of `for f in &mut self.files`
CompleteTree(i) ==
    IF files[i].len = 0 \/ Len(merkle_tree[i][1]) = 1
    THEN [tree |-> merkle_tree[i], panic |-> ""]
    ELSE CompleteFrom(merkle_tree[i], 0)

MerkleComplete ==
    /\ phase = "hashed"
    /\ LET done == [i \in 1..Len(files) |-> CompleteTree(i)]
           bad == {i \in 1..Len(files) : done[i].panic # ""}
       IN  /\ merkle_tree' = [i \in 1..Len(files) |-> done[i].tree]
           /\ IF bad = {}
              THEN phase' = "merkled" /\ panic' = ""
              ELSE /\ phase' = "panicked"
                   /\ panic' = done[CHOOSE i \in bad : \A j \in bad : i <= j].panic
    /\ UNCHANGED <<v1vars, out, progvars, cfgvars, metavars, hash_v1, plan_i, tasks, planned,
                   workers, writes_v1, writes_v2, ret>>

\* -------------------------------------------------------------- BencodeValue
BInteger(i) == [tag |-> "Integer", val |-> i]
BBytes(b) == [tag |-> "Bytes", val |-> b]
BList(l) == [tag |-> "List", val |-> l]
BMap(m) == [tag |-> "Map", val |-> m]

\* BTreeMap::new / insert (a key inserted again replaces the value)
EmptyMap == <<>>
Insert(m, k, v) == [x \in (DOMAIN m) \cup {k} |-> IF x = k THEN v ELSE m[x]]

\* format!("{}", n) for n >= 0
Digits == <<"0", "1", "2", "3", "4", "5", "6", "7", "8", "9">>
RECURSIVE Decimal(_)
Decimal(n) ==
    IF n < 10 THEN Digits[n + 1]
    ELSE Decimal(n \div 10) \o Digits[(n % 10) + 1]

RECURSIVE Concat(_)
Concat(ss) == IF ss = <<>> THEN <<>> ELSE Head(ss) \o Concat(Tail(ss))

Last(seq) == seq[Len(seq)]

\* ------------------------------------------------- hash(): the assembler
\* the entries one file contributes to the v1 `files` list
FileEntry(f) ==
    BMap(Insert(Insert(EmptyMap,
        "length", BInteger(f.len)),
        "path", BList([k \in 1..(Len(f.path) - 1) |-> BBytes(f.path[k + 1])])))

PadEntry(f) ==
    BMap(Insert(Insert(Insert(EmptyMap,
        "attr", BBytes("p")),
        "length", BInteger(f.padding)),
        "path", BList(<<BBytes(".pad"), BBytes(Decimal(f.padding))>>)))

HasPadEntry(f) == f.padding > 0

FileEntries(f) ==
    IF HasPadEntry(f) THEN <<FileEntry(f), PadEntry(f)>> ELSE <<FileEntry(f)>>

FilesList == Concat([i \in 1..Len(files) |-> FileEntries(files[i])])

\* variant: one file is single file mode whatever its path is
SingleFileModeAnyPath == Len(files) = 1
SingleFileMode == Len(files) = 1 /\ Len(files[1].path) = 1

\* the BEP3 part of info: pieces and length / files
InfoV1(info) ==
    LET withPieces == Insert(info, "pieces", BBytes(Concat(hash_v1)))
    IN  IF SingleFileMode
        THEN Insert(withPieces, "length", BInteger(files[1].len))
        ELSE Insert(withPieces, "files", BList(FilesList))

InfoV1Panic(name) ==
    IF ~SingleFileMode /\ \E i \in 1..Len(files) : files[i].path[1] # name
    THEN "assert_eq!(name, path_components[0])" ELSE ""

\* the `file tree`: nested maps keyed by the path components left after
\* skipping `strip` of them, the empty key holding {length, pieces root}
CanStrip == \A i \in 1..Len(files) : Len(files[i].path) > 1
\* variant: the first component is skipped whatever the other files' paths are
StripAlways == IF files = <<>> THEN 0 ELSE 1
Strip == IF CanStrip THEN 1 ELSE 0

InnerOf(i) ==
    LET base == Insert(EmptyMap, "length", BInteger(files[i].len))
    IN  IF files[i].len # 0
        THEN Insert(base, "pieces root", BBytes(Last(merkle_tree[i])))
        ELSE base

RECURSIVE TreeInsert(_, _, _)
TreeInsert(t, comps, inner) ==
    IF comps = <<>> THEN Insert(t, "", BMap(inner))
    ELSE LET p == Head(comps)
             e == IF p \in DOMAIN t THEN t[p] ELSE BMap(EmptyMap)
         IN  Insert(t, p, BMap(TreeInsert(e.val, Tail(comps), inner)))

RECURSIVE FileTreeFrom(_, _)
FileTreeFrom(i, t) ==
    IF i > Len(files) THEN t
    ELSE FileTreeFrom(i + 1,
             TreeInsert(t, SubSeq(files[i].path, Strip + 1, Len(files[i].path)),
                        InnerOf(i)))

FileTree == FileTreeFrom(1, EmptyMap)

FileTreePanic ==
    IF \E i \in 1..Len(files) :
           files[i].len # 0 /\ Len(Last(merkle_tree[i])) # 1
    THEN "assert merkle_tree.last().len() == 32" ELSE ""

\* `piece layers`: pieces root -> layer piece_level, for the files longer
\* than one piece
\* variant: a file of exactly one piece gets a piece layer too
NeedsPieceLayerFromOnePiece(f) == ~(f.len < piece_size)

NeedsPieceLayer(f) == ~(f.len <= piece_size)

PieceLayerFiles == {i \in 1..Len(files) : NeedsPieceLayer(files[i])}

RECURSIVE PieceLayersFrom(_, _)
PieceLayersFrom(i, m) ==
    IF i > Len(files) THEN m
    ELSE IF i \notin PieceLayerFiles THEN PieceLayersFrom(i + 1, m)
    ELSE PieceLayersFrom(i + 1,
             Insert(m, Last(merkle_tree[i])[1],
                    BBytes(merkle_tree[i][piece_level + 1])))

PieceLayers == PieceLayersFrom(1, EmptyMap)

PieceLayerPanicOf(i) ==
    IF merkle_tree[i] = <<>> THEN "merkle_tree.last() is None"
    ELSE IF piece_level + 1 > Len(merkle_tree[i])
        THEN "merkle_tree.get(piece_level) is None"
    ELSE IF Len(Last(merkle_tree[i])) # 1 THEN "assert key.len() == 32"
    ELSE IF ~(Len(merkle_tree[i][piece_level + 1]) > 1)
        THEN "assert val.len() > 32"
    ELSE ""

PieceLayersPanic ==
    LET bad == {i \in PieceLayerFiles : PieceLayerPanicOf(i) # ""}
    IN  IF bad = {} THEN ""
        ELSE PieceLayerPanicOf(CHOOSE i \in bad : \A j \in bad : i <= j)

\* announce / announce-list / nodes / url-list of the outer dictionary
HasAnnounce == ~(announces = <<>>)

WithAnnounce(m) ==
    IF HasAnnounce THEN Insert(m, "announce", BBytes(announces[1][1])) ELSE m

AnnouncePanic ==
    IF HasAnnounce /\ announces[1] = <<>> THEN "announces[0][0] out of range"
    ELSE IF ~(Len(announces) > 1) /\ announces = <<>>
        THEN "announces[0] out of range"
    ELSE ""

HasAnnounceList == Len(announces) > 1 \/ Len(announces[1]) > 1

WithAnnounceList(m) ==
    IF HasAnnounceList
    THEN Insert(m, "announce-list",
             BList([t \in 1..Len(announces) |->
                 BList([a \in 1..Len(announces[t]) |-> BBytes(announces[t][a])])]))
    ELSE m

WithNodes(m) ==
    IF ~(nodes = <<>>)
    THEN Insert(m, "nodes",
             BList([n \in 1..Len(nodes) |->
                 BList(<<BBytes(nodes[n].host), BInteger(nodes[n].port)>>)]))
    ELSE m

\* variant: the webseeds are always written as a list
UrlListAlwaysList ==
    BList([k \in 1..Len(webseeds) |-> BBytes(webseeds[k])])

UrlListValue ==
    IF Len(webseeds) = 1 THEN BBytes(webseeds[1])
    ELSE BList([k \in 1..Len(webseeds) |-> BBytes(webseeds[k])])

WithUrlList(m) ==
    IF ~(webseeds = <<>>) THEN Insert(m, "url-list", UrlListValue) ELSE m

\* the panics of the assembler in program order, "" when it runs through
AssemblePanic ==
    LET name == files[1].path[1]
        checks == <<IF files[1].path = <<>> THEN "path_components[0] out of range"
                    ELSE "",
                    IF write_v1 THEN InfoV1Panic(name) ELSE "",
                    IF write_v2 THEN FileTreePanic ELSE "",
                    IF write_v2 THEN PieceLayersPanic ELSE "",
                    AnnouncePanic>>
        bad == {k \in 1..Len(checks) : checks[k] # ""}
    IN  IF bad = {} THEN "" ELSE checks[CHOOSE k \in bad : \A j \in bad : k <= j]

InfoDict ==
    LET i0 == Insert(Insert(EmptyMap,
                  "name", BBytes(files[1].path[1])),
                  "piece length", BInteger(piece_size))
        i1 == IF private THEN Insert(i0, "private", BInteger(1)) ELSE i0
        i2 == IF write_v1 THEN InfoV1(i1) ELSE i1
    IN  IF write_v2
        THEN Insert(Insert(i2, "meta version", BInteger(2)),
                    "file tree", BMap(FileTree))
        ELSE i2

OuterDict ==
    LET r0 == IF write_v2
              THEN Insert(EmptyMap, "piece layers", BMap(PieceLayers))
              ELSE EmptyMap
    IN  Insert(WithUrlList(WithNodes(WithAnnounceList(WithAnnounce(r0)))),
               "info", BMap(InfoDict))

NoValue == BMap(EmptyMap)

\* the Bep3Hasher before Bep3Hasher::new
NoHasher ==
    [piece_size |-> 0, hashes |-> <<>>, hash_context |-> <<>>, hashed_size |-> 0]

Assemble ==
    /\ phase = "merkled"
    /\ IF AssemblePanic # ""
       THEN phase' = "panicked" /\ panic' = AssemblePanic /\ UNCHANGED ret
       ELSE phase' = "done" /\ panic' = "" /\ ret' = BMap(OuterDict)
    /\ UNCHANGED <<v1vars, out, progvars, cfgvars, metavars, hash_v1, merkle_tree, plan_i, tasks,
                   planned, workers, writes_v1, writes_v2>>

\* ------------------------------------- the unpadded v1-only path (Bep3Hasher)
\* the total size from which the automatic piece size is the large one, and
\* the large piece size (50 GiB and 1 MiB, scaled with the other sizes)
LARGE_TOTAL_SIZE == 16
LARGE_PIECE_SIZE == 8

\* Bep3Hasher::new
Bep3HasherNew(ps) ==
    [piece_size |-> ps, hashes |-> <<>>, hash_context |-> <<>>, hashed_size |-> 0]

\* hash_context.update(&data[a..b]) of file i: the context is the sequence of
\* <<"data", file, a, b>> fed since the last reset; an empty slice adds nothing
\* variant: an update replaces what the context holds
Bep3UpdateForgets(ctx, i, a, b) == << <<"data", i, a, b>> >>

Bep3Update(ctx, i, a, b) ==
    IF a = b THEN ctx
    ELSE IF ctx # <<>> /\ ctx[Len(ctx)][2] = i /\ ctx[Len(ctx)][4] = a
    THEN [ctx EXCEPT ![Len(ctx)] = <<"data", i, ctx[Len(ctx)][3], b>>]
    ELSE Append(ctx, <<"data", i, a, b>>)

Bep3Finalize(ctx) == <<"sha1", ctx>>

\* the loop of visit_file over the data of file i
RECURSIVE VisitLoop(_, _, _, _, _)
VisitLoop(h, i, offset, file_left, piece_left) ==
    LET consume == Min(piece_left, file_left)
        ctx == Bep3Update(h.hash_context, i, offset, offset + consume)
        full == piece_left - consume = 0
        h1 == IF full
              THEN [h EXCEPT !.hashes = Append(@, Bep3Finalize(ctx)),
                             !.hash_context = <<>>]
              ELSE [h EXCEPT !.hash_context = ctx]
        piece_left1 == IF full THEN h.piece_size ELSE piece_left - consume
    IN  IF file_left - consume = 0
        THEN [h1 EXCEPT !.hashed_size = h.piece_size - piece_left1]
        ELSE VisitLoop(h1, i, offset + consume, file_left - consume, piece_left1)

\* Bep3Hasher::visit_file on the len bytes of file i
VisitFile(h, i, len) == VisitLoop(h, i, 0, len, h.piece_size - h.hashed_size)

\* Bep3Hasher::visit_end
VisitEnd(h) ==
    IF h.hashed_size > 0
    THEN [h EXCEPT !.hashes = Append(@, Bep3Finalize(h.hash_context)),
                   !.hash_context = <<>>, !.hashed_size = 0]
    ELSE h

\* which assertion of the v1-only TorrentMetadata::new fails first
V1NewPanic ==
    IF user_piece_size.some /\ (user_piece_size.val < 1
                                \/ ~IsPow2(user_piece_size.val))
        THEN "piece size not a power of two"
    ELSE IF user_piece_size.some /\ user_piece_size.val < MIN_PIECE_SIZE
        THEN "piece size too small"
    ELSE IF user_piece_size.some /\ user_piece_size.val > MAX_PIECE_SIZE
        THEN "piece size too large"
    ELSE IF announces = <<>> /\ nodes = <<>> THEN "no announce and no node"
    ELSE ""

\* the v1-only TorrentMetadata::new: no file yet, piece_size 0 when unset
V1New ==
    /\ phase = "start_v1"
    /\ IF V1NewPanic # ""
       THEN phase' = "panicked" /\ panic' = V1NewPanic /\ UNCHANGED metavars
       ELSE /\ phase' = "v1_constructed"
            /\ panic' = ""
            /\ files' = <<>>
            /\ piece_size' = IF user_piece_size.some THEN user_piece_size.val
                             ELSE 0
            /\ UNCHANGED <<piece_factor, piece_level, total_bytes>>
    /\ UNCHANGED <<v1vars, out, progvars, cfgvars, hash_v1, merkle_tree, plan_i, tasks,
                   planned, workers, writes_v1, writes_v2, ret>>

\* scan(): the files of the walk, sorted
V1Scan ==
    /\ phase = "v1_constructed"
    /\ phase' = "v1_scanned"
    /\ files' = [k \in 1..Len(walked_files) |->
                    [len |-> walked_files[k].len, path |-> walked_files[k].path]]
    /\ UNCHANGED <<v1vars, out, progvars, panic, cfgvars, piece_size, piece_factor,
                   piece_level, total_bytes, hash_v1, merkle_tree, plan_i,
                   tasks, planned, workers, writes_v1, writes_v2, ret>>

\* "Determine piece size" of the v1-only hash()
V1PieceSize(preset, total_size) ==
    IF preset # 0 THEN preset
    ELSE IF total_size < LARGE_TOTAL_SIZE THEN DEFAULT_PIECE_SIZE
    ELSE LARGE_PIECE_SIZE

\* hash() entry: the piece size, a new hasher
V1HashBegin ==
    /\ phase = "v1_scanned"
    /\ phase' = "v1_hashing"
    /\ total_bytes' = SumLen(files)
    /\ piece_size' = V1PieceSize(piece_size, SumLen(files))
    /\ hasher' = Bep3HasherNew(V1PieceSize(piece_size, SumLen(files)))
    /\ hash_i' = 1
    /\ UNCHANGED <<out, progvars, panic, cfgvars, files, piece_factor, piece_level,
                   hash_v1, merkle_tree, plan_i, tasks, planned, workers,
                   writes_v1, writes_v2, ret>>

\* one iteration of `for file_meta in &self.files`: File::open(..)? and
\* map(..)? return the error, an empty file is visited without being opened
V1VisitFile ==
    /\ phase = "v1_hashing"
    /\ hash_i <= Len(files)
    /\ IF files[hash_i].len # 0 /\ hash_i \in unreadable
       THEN /\ phase' = "failed"
            /\ panic' = "io error"
            /\ UNCHANGED hasher
       ELSE /\ hasher' = VisitFile(hasher, hash_i, files[hash_i].len)
            /\ UNCHANGED <<phase, panic>>
    /\ hash_i' = hash_i + 1
    /\ UNCHANGED <<out, progvars, cfgvars, metavars, hash_v1, merkle_tree, plan_i, tasks,
                   planned, workers, writes_v1, writes_v2, ret>>

V1VisitEnd ==
    /\ phase = "v1_hashing"
    /\ hash_i > Len(files)
    /\ phase' = "v1_hashed"
    /\ hasher' = VisitEnd(hasher)
    /\ UNCHANGED <<out, progvars, hash_i, panic, cfgvars, metavars, hash_v1, merkle_tree,
                   plan_i, tasks, planned, workers, writes_v1, writes_v2, ret>>

\* the entries of the v1-only `files` list (no padding entries)
V1FilesList == [i \in 1..Len(files) |-> FileEntry(files[i])]

\* the panics of the v1-only assembler in program order
V1AssemblePanic ==
    IF files = <<>> THEN "files[0] out of range"
    ELSE IF files[1].path = <<>> THEN "path_components[0] out of range"
    ELSE IF ~SingleFileMode /\ \E i \in 1..Len(files) : ~(Len(files[i].path) > 1)
        THEN "assert path_components.len() > 1"
    ELSE IF ~SingleFileMode
            /\ \E i \in 1..Len(files) : files[i].path[1] # files[1].path[1]
        THEN "assert_eq!(name, path_components[0])"
    ELSE AnnouncePanic

V1InfoDict ==
    LET i0 == Insert(Insert(EmptyMap,
                  "name", BBytes(files[1].path[1])),
                  "piece length", BInteger(piece_size))
        i1 == IF private THEN Insert(i0, "private", BInteger(1)) ELSE i0
        i2 == Insert(i1, "pieces", BBytes(hasher.hashes))
    IN  IF SingleFileMode
        THEN Insert(i2, "length", BInteger(files[1].len))
        ELSE Insert(i2, "files", BList(V1FilesList))

\* the same announce / announce-list / nodes / url-list code as the hybrid path
V1OuterDict ==
    Insert(WithUrlList(WithNodes(WithAnnounceList(WithAnnounce(EmptyMap)))),
           "info", BMap(V1InfoDict))

V1Assemble ==
    /\ phase = "v1_hashed"
    /\ IF V1AssemblePanic # ""
       THEN phase' = "panicked" /\ panic' = V1AssemblePanic /\ UNCHANGED ret
       ELSE phase' = "done" /\ panic' = "" /\ ret' = BMap(V1OuterDict)
    /\ UNCHANGED <<v1vars, out, progvars, cfgvars, metavars, hash_v1, merkle_tree, plan_i,
                   tasks, planned, workers, writes_v1, writes_v2>>

NextV1Only ==
    \/ V1New
    \/ V1Scan
    \/ V1HashBegin
    \/ V1VisitFile
    \/ V1VisitEnd
    \/ V1Assemble

\* ------------------------------------------------------------------ inputs
\* File lengths in units: empty, less than a block, a block and a half, a
\* whole number of blocks, more than MAX_JOB_BYTES with and without a short
\* tail.
FileLengths ==
    {0, 1, MERKLE_PIECE_SIZE + 1, 2 * MERKLE_PIECE_SIZE,
     MAX_JOB_BYTES + 1, MAX_JOB_BYTES + MERKLE_PIECE_SIZE}

FileNames == <<"a", "b", "c", "e">>

\* the walker's output for a directory "d" holding n files, and for one file
\* given directly: sorted by path, every path under the same root
DirLists(n, lens) ==
    {[k \in 1..n |-> [len |-> ls[k], path |-> <<"d", FileNames[k]>>]] :
        ls \in [1..n -> lens]}

DirectFile(lens) == {<<[len |-> l, path |-> <<"a">>]>> : l \in lens}

\* lengths of the files of a list of several files: empty, a short tail, a
\* whole number of pieces or blocks, several jobs
ListLengths == {0, MERKLE_PIECE_SIZE + 1, 2 * MERKLE_PIECE_SIZE, MAX_JOB_BYTES + 1}

WalkedLists(lens, listLens) ==
    DirectFile(lens) \cup DirLists(1, lens)
        \cup UNION {DirLists(n, listLens) : n \in 2..MaxFiles}

PieceSizes == {None, Some(MIN_PIECE_SIZE), Some(MAX_PIECE_SIZE)}

\* nothing is constructed yet
InitState ==
    /\ files = <<>>
    /\ hash_v1 = <<>>
    /\ merkle_tree = <<>>
    /\ piece_size = 0
    /\ piece_factor = 0
    /\ piece_level = 0
    /\ total_bytes = 0
    /\ plan_i = 0
    /\ tasks = <<>>
    /\ planned = <<>>
    /\ workers = <<>>
    /\ writes_v1 = <<>>
    /\ writes_v2 = <<>>
    /\ ret = NoValue
    /\ hasher = NoHasher
    /\ hash_i = 0
    /\ out = <<>>
    /\ progress_notify = FALSE
    /\ progress_rx = <<>>
    /\ ui_thread = NoUiThread

InitWith(lists, sizes, threads, anns, nds, webs, privs, v1s, v2s) ==
    /\ phase = "start"
    /\ panic = ""
    /\ walked_files \in lists
    /\ user_piece_size \in sizes
    /\ thread_num \in threads
    /\ announces \in anns
    /\ nodes \in nds
    /\ webseeds \in webs
    /\ private \in privs
    /\ write_v1 \in v1s
    /\ write_v2 \in v2s
    /\ no_padding = FALSE
    /\ unreadable = {}
    /\ InitState

\* every file list, piece size and thread count; one tracker, hybrid output
Init ==
    InitWith(WalkedLists(FileLengths, ListLengths), PieceSizes, 1..MaxThreads,
             {<<<<"t1">>>>}, {<<>>}, {<<>>}, {FALSE}, {TRUE}, {TRUE})

Next ==
    \/ New
    \/ HashBegin
    \/ PlanFile
    \/ StartScope
    \/ DropNotify
    \/ UiRecv
    \/ \E w \in DOMAIN workers : WorkerPop(w)
    \/ \E w \in DOMAIN workers : WorkerChunk(w)
    \/ \E w \in DOMAIN workers : WorkerFinish(w)
    \/ EndScope
    \/ MerkleComplete
    \/ Assemble

Spec == Init /\ [][Next]_vars

\* ----------------------------------------------- inputs of the assembler
MaxTiers == 2
MaxTierUrls == 2
MaxWebseeds == 2

TrackerUrl(t, u) == "http://t" \o Decimal(t) \o "/" \o Decimal(u)
WebseedUrl(k) == "http://w" \o Decimal(k) \o "/"

\* as parse_announces yields them: any number of tiers, no tier empty
AnnounceChoices ==
    UNION {{[t \in 1..n |-> [u \in 1..sz[t] |-> TrackerUrl(t, u)]] :
               sz \in [1..n -> 1..MaxTierUrls]} : n \in 0..MaxTiers}

NodeChoices == {<<>>, <<[host |-> "dht.example", port |-> 6881]>>}

WebseedChoices == {[k \in 1..n |-> WebseedUrl(k)] : n \in 0..MaxWebseeds}

\* the walker's output for a directory "d" with a subdirectory "s": a file
\* beside the subdirectory and one in it, or two files in it
NestedLists(lens) ==
    {<<[len |-> l1, path |-> <<"d", "a">>],
       [len |-> l2, path |-> <<"d", "s", "b">>]>> : l1 \in lens, l2 \in lens}
    \cup {<<[len |-> l1, path |-> <<"d", "s", "a">>],
            [len |-> l2, path |-> <<"d", "s", "b">>]>> : l1 \in lens, l2 \in lens}

MetaLists ==
    DirectFile({MERKLE_PIECE_SIZE + 1})
        \cup DirLists(2, {0, MERKLE_PIECE_SIZE + 1})
        \cup NestedLists({0, MERKLE_PIECE_SIZE + 1})

\* a few file lists, one thread; every choice of trackers, nodes, webseeds,
\* private flag and output versions
InitMeta ==
    InitWith(MetaLists, {None}, {1}, AnnounceChoices, NodeChoices,
             WebseedChoices, BOOLEAN, BOOLEAN, BOOLEAN)

SpecMeta == InitMeta /\ [][Next]_vars

\* ------------------------------------------- inputs of the v1-only path
\* any config over the given choices, the v1-only path entered
InitV1With(lists, sizes, bad) ==
    /\ phase = "start_v1"
    /\ panic = ""
    /\ walked_files \in lists
    /\ user_piece_size \in sizes
    /\ thread_num = 1
    /\ announces = <<<<"t1">>>>
    /\ nodes = <<>>
    /\ webseeds = <<>>
    /\ private = FALSE
    /\ write_v1 = TRUE
    /\ write_v2 = FALSE
    /\ no_padding = TRUE
    /\ unreadable \in bad
    /\ InitState

\* every file list and piece size, every file readable
InitV1Only ==
    InitV1With(WalkedLists(FileLengths, ListLengths), PieceSizes, {{}})

SpecV1Only == InitV1Only /\ [][NextV1Only]_vars

\* ------------------------------------------------------------------- main
\* variant: check() without the test of threads
CliCheckErrorNoThreads ==
    IF ~write_v1 /\ ~write_v2 THEN "At least one bep3/bep52"
    ELSE IF announces = <<>> /\ nodes = <<>>
        THEN "Please specify tracker/node URL using --announce/--node"
    ELSE IF user_piece_size.some /\ user_piece_size.val < MIN_PIECE_SIZE
        THEN "Piece size too small"
    ELSE IF user_piece_size.some /\ user_piece_size.val > MAX_PIECE_SIZE
        THEN "Piece size too large"
    ELSE IF user_piece_size.some /\ ~IsPow2(user_piece_size.val)
        THEN "Piece size is not a power of 2"
    ELSE IF no_padding /\ (write_v2 \/ thread_num # 1 \/ ~write_v1)
        THEN "no_padding is incompatible with bep52 and threads."
    ELSE ""

\* CliOptions::check: the first error, "" for Ok (no_bep3 is ~write_v1,
\* no_bep52 is ~write_v2)
CliCheckError ==
    IF ~write_v1 /\ ~write_v2 THEN "At least one bep3/bep52"
    ELSE IF announces = <<>> /\ nodes = <<>>
        THEN "Please specify tracker/node URL using --announce/--node"
    ELSE IF user_piece_size.some /\ user_piece_size.val < MIN_PIECE_SIZE
        THEN "Piece size too small"
    ELSE IF user_piece_size.some /\ user_piece_size.val > MAX_PIECE_SIZE
        THEN "Piece size too large"
    ELSE IF user_piece_size.some /\ ~IsPow2(user_piece_size.val)
        THEN "Piece size is not a power of 2"
    ELSE IF thread_num < 1 THEN "are you kidding me running with 0 thread?"
    ELSE IF no_padding /\ (write_v2 \/ thread_num # 1 \/ ~write_v1)
        THEN "no_padding is incompatible with bep52 and threads."
    ELSE ""

\* main up to the construction of the metadata: an error of check() is
\* logged and main returns; otherwise the directory is walked and the path
\* is chosen by no_padding
CliCheck ==
    /\ phase = "cli"
    /\ IF CliCheckError # ""
       THEN phase' = "rejected" /\ panic' = CliCheckError
       ELSE /\ phase' = IF no_padding THEN "start_v1" ELSE "start"
            /\ panic' = ""
    /\ UNCHANGED <<v1vars, out, progvars, cfgvars, metavars, hash_v1, merkle_tree, plan_i,
                   tasks, planned, workers, writes_v1, writes_v2, ret>>

\* piece sizes of the command line: unset, 0, too small, not a power of two,
\* valid, too large
CliPieceSizes ==
    {None, Some(0), Some(1), Some(MIN_PIECE_SIZE + 1), Some(MIN_PIECE_SIZE),
     Some(2 * MAX_PIECE_SIZE)}

\* the walk of an empty directory, of a file and of a directory of two files
CliLists ==
    {<<>>} \cup DirectFile({MERKLE_PIECE_SIZE + 1})
        \cup DirLists(2, {0, MERKLE_PIECE_SIZE + 1})

\* every command line over these choices, valid or not
InitCli ==
    /\ phase = "cli"
    /\ panic = ""
    /\ walked_files \in CliLists
    /\ user_piece_size \in CliPieceSizes
    /\ thread_num \in 0..MaxThreads
    /\ announces \in {<<>>, <<<<"t1">>>>}
    /\ nodes \in NodeChoices
    /\ webseeds = <<>>
    /\ private = FALSE
    /\ write_v1 \in BOOLEAN
    /\ write_v2 \in BOOLEAN
    /\ no_padding \in BOOLEAN
    /\ unreadable = {}
    /\ InitState

NextCli ==
    \/ CliCheck
    \/ Next
    \/ NextV1Only

SpecCli == InitCli /\ [][NextCli]_vars

\* ------------------------------------------------ inputs with I/O failures
\* a file of several jobs, or two files; any set of them unreadable
IoLists ==
    DirectFile({MAX_JOB_BYTES + 1})
        \cup DirLists(2, {0, MERKLE_PIECE_SIZE + 1, MAX_JOB_BYTES + 1})

InitIo ==
    /\ phase = "start"
    /\ panic = ""
    /\ walked_files \in IoLists
    /\ user_piece_size = None
    /\ thread_num \in 1..MaxThreads
    /\ announces = <<<<"t1">>>>
    /\ nodes = <<>>
    /\ webseeds = <<>>
    /\ private = FALSE
    /\ write_v1 = TRUE
    /\ write_v2 = TRUE
    /\ no_padding = FALSE
    /\ unreadable \in SUBSET (1..Len(walked_files))
    /\ InitState

SpecIo == InitIo /\ [][Next]_vars

\* ------------------------------------------------ BencodeValue::serialize
\* Bytes and keys are sequences of byte values here, the output is one too.
\* format!("{}", n) as bytes, for n >= 0
RECURSIVE DecimalBytes(_)
DecimalBytes(n) ==
    IF n < 10 THEN <<48 + n>>
    ELSE Append(DecimalBytes(n \div 10), 48 + (n % 10))

\* variant: the sign is not written
IntBytesNoSign(i) == IF i < 0 THEN DecimalBytes(0 - i) ELSE DecimalBytes(i)

\* format!("{}", i) as bytes, for an i64
IntBytes(i) == IF i < 0 THEN <<45>> \o DecimalBytes(0 - i) ELSE DecimalBytes(i)

\* collect_bytes: the length, ':', the bytes
CollectBytes(b) == DecimalBytes(Len(b)) \o <<58>> \o b

\* the order of Vec<u8>: a proper prefix comes first, otherwise the first
\* byte that differs decides
\* variant: the shorter key comes first
LexLessShorterFirst(a, b) ==
    \/ Len(a) < Len(b)
    \/ /\ Len(a) = Len(b)
       /\ \E i \in 1..Len(a) :
              /\ \A j \in 1..(i - 1) : a[j] = b[j]
              /\ a[i] < b[i]

LexLess(a, b) ==
    \E i \in 1..(Min(Len(a), Len(b)) + 1) :
        /\ \A j \in 1..(i - 1) : a[j] = b[j]
        /\ \/ i = Len(a) + 1 /\ i <= Len(b)
           \/ i <= Len(a) /\ i <= Len(b) /\ a[i] < b[i]

\* the keys of a BTreeMap in the order its iterator yields them
RECURSIVE KeysInOrder(_)
KeysInOrder(S) ==
    IF S = {} THEN <<>>
    ELSE LET k == CHOOSE x \in S : \A o \in S \ {x} : LexLess(x, o)
         IN  <<k>> \o KeysInOrder(S \ {k})

\* collect_segments
RECURSIVE CollectSegments(_)
CollectSegments(v) ==
    IF v.tag = "Integer" THEN <<105>> \o IntBytes(v.val) \o <<101>>
    ELSE IF v.tag = "Bytes" THEN CollectBytes(v.val)
    ELSE IF v.tag = "List"
        THEN <<108>>
             \o Concat([i \in 1..Len(v.val) |-> CollectSegments(v.val[i])])
             \o <<101>>
    ELSE LET ks == KeysInOrder(DOMAIN v.val)
         IN  <<100>>
             \o Concat([i \in 1..Len(ks) |->
                    CollectBytes(ks[i]) \o CollectSegments(v.val[ks[i]])])
             \o <<101>>

Serialize(v) == CollectSegments(v)

\* the values and keys the values are built from
MaxItems == 2

BencodeKeys == {<<>>, <<98, 97>>, <<98, 97, 114>>, <<99>>}

BencodeAtoms ==
    <<BInteger(0 - 42), BInteger(0), BInteger(100),
      BBytes(<<>>), BBytes(<<102, 111, 111>>),
      BList(<<>>), BMap(EmptyMap)>>

\* how deep the non-empty containers of a value are nested
RECURSIVE Depth(_)
Depth(v) ==
    IF v.tag = "List" /\ v.val # <<>>
        THEN 1 + (LET ds == {Depth(v.val[i]) : i \in 1..Len(v.val)}
                  IN  CHOOSE d \in ds : \A e \in ds : e <= d)
    ELSE IF v.tag = "Map" /\ DOMAIN v.val # {}
        THEN 1 + (LET ds == {Depth(v.val[k]) : k \in DOMAIN v.val}
                  IN  CHOOSE d \in ds : \A e \in ds : e <= d)
    ELSE 0

\* map.insert(k, v) on the value being built
BencodeInsert ==
    /\ phase = "bencode"
    /\ ret.tag = "Map" /\ Depth(ret) <= 1
    /\ \E k \in BencodeKeys, n \in DOMAIN BencodeAtoms :
           /\ k \in DOMAIN ret.val \/ Cardinality(DOMAIN ret.val) < MaxItems
           /\ ret' = BMap(Insert(ret.val, k, BencodeAtoms[n]))
    /\ UNCHANGED <<phase, panic, v1vars, progvars, out, cfgvars, metavars, hash_v1,
                   merkle_tree, plan_i, tasks, planned, workers, writes_v1,
                   writes_v2>>

\* an item more in the list being built
BencodePush ==
    /\ phase = "bencode"
    /\ ret.tag = "List" /\ Depth(ret) <= 1 /\ Len(ret.val) < MaxItems
    /\ \E n \in DOMAIN BencodeAtoms : ret' = BList(Append(ret.val, BencodeAtoms[n]))
    /\ UNCHANGED <<phase, panic, v1vars, progvars, out, cfgvars, metavars, hash_v1,
                   merkle_tree, plan_i, tasks, planned, workers, writes_v1,
                   writes_v2>>

\* the value becomes the item of a list, or the value of a key of a map
BencodeWrap ==
    /\ phase = "bencode"
    /\ Depth(ret) < MaxItems
    /\ \/ ret' = BList(<<ret>>)
       \/ \E k \in BencodeKeys : ret' = BMap(Insert(EmptyMap, k, ret))
    /\ UNCHANGED <<phase, panic, v1vars, progvars, out, cfgvars, metavars, hash_v1,
                   merkle_tree, plan_i, tasks, planned, workers, writes_v1,
                   writes_v2>>

\* meta.serialize()
SerializeValue ==
    /\ phase = "bencode"
    /\ phase' = "written"
    /\ out' = Serialize(ret)
    /\ UNCHANGED <<panic, v1vars, progvars, ret, cfgvars, metavars, hash_v1, merkle_tree,
                   plan_i, tasks, planned, workers, writes_v1, writes_v2>>

InitBencode ==
    /\ phase = "bencode"
    /\ panic = ""
    /\ walked_files = <<>>
    /\ user_piece_size = None
    /\ thread_num = 1
    /\ announces = <<>>
    /\ nodes = <<>>
    /\ webseeds = <<>>
    /\ private = FALSE
    /\ write_v1 = TRUE
    /\ write_v2 = TRUE
    /\ no_padding = FALSE
    /\ unreadable = {}
    /\ files = <<>>
    /\ hash_v1 = <<>>
    /\ merkle_tree = <<>>
    /\ piece_size = 0
    /\ piece_factor = 0
    /\ piece_level = 0
    /\ total_bytes = 0
    /\ plan_i = 0
    /\ tasks = <<>>
    /\ planned = <<>>
    /\ workers = <<>>
    /\ writes_v1 = <<>>
    /\ writes_v2 = <<>>
    /\ \E n \in DOMAIN BencodeAtoms : ret = BencodeAtoms[n]
    /\ hasher = NoHasher
    /\ hash_i = 0
    /\ out = <<>>
    /\ progress_notify = FALSE
    /\ progress_rx = <<>>
    /\ ui_thread = NoUiThread

NextBencode ==
    \/ BencodeInsert
    \/ BencodePush
    \/ BencodeWrap
    \/ SerializeValue

SpecBencode == InitBencode /\ [][NextBencode]_vars

\* --------------------------------- inputs: file lists not made by one walk
\* two files under different first components (a WalkedDir put together by
\* the caller), beside the lists of a walk and the empty list
MixedRootLists(lens) ==
    {<<[len |-> l1, path |-> <<"d", "a">>],
       [len |-> l2, path |-> <<"x", "b">>]>> : l1 \in lens, l2 \in lens}

RootLists ==
    {<<>>} \cup MixedRootLists({0, MERKLE_PIECE_SIZE + 1})
        \cup DirLists(2, {0, MERKLE_PIECE_SIZE + 1})

InitRoots ==
    InitWith(RootLists, {None}, {1}, {<<<<"t1">>>>}, {<<>>}, {<<>>}, {FALSE},
             BOOLEAN, BOOLEAN)

SpecRoots == InitRoots /\ [][Next]_vars

\* ------------------------------------------------- the job planner alone
\* every file length up to two jobs and a block, in lists of any lengths
PlanLengths == 0..(2 * MAX_JOB_BYTES + MERKLE_PIECE_SIZE)

PlanLists ==
    DirectFile(PlanLengths) \cup UNION {DirLists(n, PlanLengths) : n \in 1..MaxFiles}

InitPlan ==
    InitWith(PlanLists, PieceSizes, {1}, {<<<<"t1">>>>}, {<<>>}, {<<>>},
             {FALSE}, {TRUE}, {TRUE})

\* new() and hash() up to the end of the loop that fills the queue
NextPlan ==
    \/ New
    \/ HashBegin
    \/ PlanFile

SpecPlan == InitPlan /\ [][NextPlan]_vars

\* ------------------------------------ the hash phase under fair scheduling
\* empty files, files of one job with a short tail and files of two jobs
ProgressLengths == {0, MERKLE_PIECE_SIZE + 1, MAX_JOB_BYTES + 1}

\* lists of one and two files: up to four jobs
ProgressLists == UNION {DirLists(n, ProgressLengths) : n \in 1..2}

\* those of at most two jobs
FewJobLists ==
    {l \in ProgressLists : SumLen(l) <= MAX_JOB_BYTES + MERKLE_PIECE_SIZE}

\* one or two workers on every list (fewer workers than jobs, as many, more),
\* and up to MaxThreads workers on the lists of few jobs
InitProgress ==
    \/ InitWith(ProgressLists, {None}, {1, 2}, {<<<<"t1">>>>}, {<<>>},
                {<<>>}, {FALSE}, {TRUE}, {TRUE})
    \/ InitWith(FewJobLists, {None}, 1..MaxThreads, {<<<<"t1">>>>}, {<<>>},
                {<<>>}, {FALSE}, {TRUE}, {TRUE})

\* the steps of the thread that runs hash()
MainStep ==
    \/ New
    \/ HashBegin
    \/ PlanFile
    \/ StartScope
    \/ DropNotify
    \/ EndScope
    \/ MerkleComplete
    \/ Assemble

\* the steps of worker thread w
WorkerStep(w) ==
    /\ w \in DOMAIN workers
    /\ (WorkerPop(w) \/ WorkerChunk(w) \/ WorkerFinish(w))

\* every thread that can take a step is scheduled in the end: the threads are
\* OS threads, none holds a lock another one waits for
SpecProgress ==
    /\ InitProgress
    /\ [][Next]_vars
    /\ WF_vars(MainStep)
    /\ WF_vars(UiRecv)
    /\ \A w \in 1..MaxThreads : WF_vars(WorkerStep(w))

\* ------------------------------------- every job, and every list of files
\* file lengths up to a job and a block: one and two jobs
WalkLengths == 0..(MAX_JOB_BYTES + MERKLE_PIECE_SIZE)

\* one file of every such length hashed by up to MaxThreads workers, and
\* every list of up to MaxFiles files hashed by one worker
InitJobs ==
    \/ InitWith(DirLists(1, WalkLengths), PieceSizes, 1..MaxThreads,
                {<<<<"t1">>>>}, {<<>>}, {<<>>}, {FALSE}, {TRUE}, {TRUE})
    \/ InitWith(UNION {DirLists(n, ListLengths) : n \in 1..MaxFiles},
                PieceSizes, {1}, {<<<<"t1">>>>}, {<<>>}, {<<>>}, {FALSE},
                {TRUE}, {TRUE})

SpecJobs == InitJobs /\ [][Next]_vars

\* ==================================================================== claims
\* the positions of the main thread at which the hash phase has ended
HashPhaseOver == phase \in {"hashed", "merkled", "done"}

\* what slot k (from 1) of file i's v1_hashes is the digest of, going by the
\* file's length and flags alone: the piece's bytes, and the zero fill of a
\* short piece unless the file is marked as the last data file
RefV1(i, k) ==
    LET lo == (k - 1) * piece_size
        hi == Min(k * piece_size, files[i].len)
        short == piece_size - (hi - lo)
    IN  <<"sha1", i,
          IF short > 0 /\ ~files[i].is_last_data_file
          THEN << <<"data", lo, hi>>, <<"zeros", short>> >>
          ELSE << <<"data", lo, hi>> >> >>

\* what leaf j (from 1) of file i is the digest of
RefLeaf(i, j) ==
    <<"sha256", i,
      << <<"data", (j - 1) * MERKLE_PIECE_SIZE,
           Min(j * MERKLE_PIECE_SIZE, files[i].len)>> >> >>

CeilDiv(a, b) == (a + b - 1) \div b

\* the workers that hashed at least one byte
BusyWorkers == {w \in DOMAIN workers : workers[w].byte_count > 0}

\* C1: the hash buffers after the hash phase are a function of the file list
\* and the piece size alone: for every thread count and every interleaving of
\* the workers, v1_hashes and the leaf layer of every file are the same.
C1_BuffersDeterministic ==
    HashPhaseOver =>
        /\ hash_v1 = [i \in 1..Len(files) |->
               [k \in 1..CeilDiv(files[i].len, piece_size) |-> RefV1(i, k)]]
        /\ \A i \in 1..Len(files) :
               IF files[i].len = 0 THEN merkle_tree[i] = <<>>
               ELSE merkle_tree[i][1] =
                        [j \in 1..CeilDiv(files[i].len, MERKLE_PIECE_SIZE) |->
                            RefLeaf(i, j)]

\* two workers have shared the jobs of a file of several jobs
C1_Witness ==
    /\ phase = "hashed"
    /\ Cardinality(BusyWorkers) >= 2
    /\ \E a, b \in 1..Len(planned) : a # b /\ planned[a].file = planned[b].file

\* the bytes [start, start + len) of a slice
SliceBytes(slice) == slice.start .. (slice.start + slice.len - 1)

JobsOf(i) == {n \in 1..Len(planned) : planned[n].file = i}

PlanningOver == phase \in {"hashing", "hashed", "merkled", "done"}

\* the planner's loop over the files has ended
PlannerDone == PlanningOver \/ (phase = "planning" /\ plan_i > Len(files))

\* C2: the jobs of a file of length L > 0 partition its buffers: their
\* v1_hash slices are pairwise disjoint and cover exactly the
\* ceil(L / piece_size) * 20 bytes of v1_hashes, their v2_hash slices are
\* pairwise disjoint and cover exactly the ceil(L / 16 KiB) * 32 bytes of the
\* leaf layer (jobs of different files slice different buffers).
C2_SlicesPartition ==
    PlanningOver =>
        \A i \in 1..Len(files) :
            /\ files[i].len = 0 => JobsOf(i) = {}
            /\ files[i].len > 0 =>
                /\ UNION {SliceBytes(planned[n].v1_hash) : n \in JobsOf(i)}
                       = 0 .. (CeilDiv(files[i].len, piece_size) * SHA1_LEN - 1)
                /\ UNION {SliceBytes(planned[n].v2_hash) : n \in JobsOf(i)}
                       = 0 .. (CeilDiv(files[i].len, MERKLE_PIECE_SIZE) * SHA256_LEN - 1)
                /\ Len(hash_v1[i]) * SHA1_LEN
                       = CeilDiv(files[i].len, piece_size) * SHA1_LEN
                /\ Len(merkle_tree[i][1]) * SHA256_LEN
                       = CeilDiv(files[i].len, MERKLE_PIECE_SIZE) * SHA256_LEN
                /\ \A n, m \in JobsOf(i) :
                       n # m =>
                           /\ SliceBytes(planned[n].v1_hash)
                                  \cap SliceBytes(planned[m].v1_hash) = {}
                           /\ SliceBytes(planned[n].v2_hash)
                                  \cap SliceBytes(planned[m].v2_hash) = {}
                /\ \A n \in JobsOf(i) :
                       /\ planned[n].v1_hash.len = planned[n].v1_pieces * SHA1_LEN
                       /\ planned[n].v2_hash.len = planned[n].v2_pieces * SHA256_LEN

\* a file cut into several jobs has been planned
C2_Witness ==
    /\ PlanningOver
    /\ \E i \in 1..Len(files) : Cardinality(JobsOf(i)) >= 2
    /\ \E i \in 1..Len(files) : Cardinality(JobsOf(i)) = 1

\* C3: no slot is ever written twice and no worker fails; when the hash phase
\* has ended the queue is empty and every slot of every file's v1_hashes and
\* leaf layer has been written exactly once (none is left at its zero value).
C3_EverySlotWrittenOnce ==
    /\ \A w \in DOMAIN workers : workers[w].pc # "panicked"
    /\ \A i \in DOMAIN writes_v1 : \A k \in DOMAIN writes_v1[i] : writes_v1[i][k] <= 1
    /\ \A i \in DOMAIN writes_v2 : \A k \in DOMAIN writes_v2[i] : writes_v2[i][k] <= 1
    /\ HashPhaseOver =>
        /\ tasks = <<>>
        /\ \A i \in 1..Len(files) :
            /\ Len(hash_v1[i]) = files[i].hash_v1_piece_count
            /\ \A k \in 1..Len(hash_v1[i]) :
                   writes_v1[i][k] = 1 /\ hash_v1[i][k] # ZeroSlot
            /\ files[i].len > 0 =>
                   /\ Len(merkle_tree[i][1]) = files[i].merkle_piece_count
                   /\ \A k \in 1..Len(merkle_tree[i][1]) :
                          writes_v2[i][k] = 1 /\ merkle_tree[i][1][k] # ZeroSlot

\* the phase has ended after several workers ran several jobs
C3_Witness ==
    /\ phase = "hashed"
    /\ Len(planned) >= 3
    /\ Cardinality(BusyWorkers) >= 2

\* C4: after hashing, slot k of a file's v1_hashes is the SHA-1 of the file's
\* bytes [k * piece_size, min((k + 1) * piece_size, L)), followed by nothing
\* or by the zero fill of a short piece, and slot j of its leaf layer is the
\* SHA-256 of the bytes [j * 16 KiB, min((j + 1) * 16 KiB, L)).
C4_SlotsHoldTheirRange ==
    HashPhaseOver =>
        \A i \in 1..Len(files) :
            /\ Len(hash_v1[i]) = CeilDiv(files[i].len, piece_size)
            /\ \A k \in 1..Len(hash_v1[i]) :
                LET d == hash_v1[i][k]
                    lo == (k - 1) * piece_size
                    hi == Min(k * piece_size, files[i].len)
                IN  /\ Len(d) = 3 /\ d[1] = "sha1" /\ d[2] = i
                    /\ Len(d[3]) \in {1, 2}
                    /\ d[3][1] = <<"data", lo, hi>>
                    /\ Len(d[3]) = 2 =>
                           /\ hi - lo < piece_size
                           /\ d[3][2] = <<"zeros", piece_size - (hi - lo)>>
            /\ files[i].len > 0 =>
                /\ Len(merkle_tree[i][1]) = CeilDiv(files[i].len, MERKLE_PIECE_SIZE)
                /\ \A j \in 1..Len(merkle_tree[i][1]) :
                       merkle_tree[i][1][j] =
                           <<"sha256", i,
                             << <<"data", (j - 1) * MERKLE_PIECE_SIZE,
                                  Min(j * MERKLE_PIECE_SIZE, files[i].len)>> >> >>

\* hashed: a file of several pieces whose last piece and last block are short
C4_Witness ==
    /\ phase = "hashed"
    /\ \E i \in 1..Len(files) :
           /\ Len(hash_v1[i]) >= 2
           /\ files[i].len % MERKLE_PIECE_SIZE # 0
           /\ Cardinality(JobsOf(i)) >= 2

\* the position of the last file with length > 0 in the list, 0 when none
LastDataIndex ==
    LET data == {k \in 1..Len(files) : files[k].len > 0}
    IN  IF data = {} THEN 0 ELSE CHOOSE k \in data : \A j \in data : j <= k

PaddingOf(len) ==
    IF len = 0 \/ len % piece_size = 0 THEN 0 ELSE piece_size - (len % piece_size)

C6_OnlyLastFileUnpadded ==
    HashPhaseOver =>
        \A i \in 1..Len(files) :
            files[i].len % piece_size # 0 =>
                LET d == Last(hash_v1[i])
                    lo == (Len(hash_v1[i]) - 1) * piece_size
                    real == <<"data", lo, files[i].len>>
                IN  IF i = LastDataIndex
                    THEN d[3] = <<real>>
                    ELSE d[3] = <<real, <<"zeros", piece_size - (files[i].len - lo)>> >>

\* the dictionaries C7 speaks of
C7_FileDict(f) ==
    [tag |-> "Map",
     val |-> [length |-> [tag |-> "Integer", val |-> f.len],
              path |-> [tag |-> "List",
                        val |-> [k \in 1..(Len(f.path) - 1) |->
                                    [tag |-> "Bytes", val |-> f.path[k + 1]]]]]]

C7_PadDict(f) ==
    [tag |-> "Map",
     val |-> [attr |-> [tag |-> "Bytes", val |-> "p"],
              length |-> [tag |-> "Integer", val |-> f.padding],
              path |-> [tag |-> "List",
                        val |-> <<[tag |-> "Bytes", val |-> ".pad"],
                                  [tag |-> "Bytes", val |-> ToString(f.padding)]>>]]]

RECURSIVE C7_Entries(_)
C7_Entries(i) ==
    IF i > Len(files) THEN <<>>
    ELSE (IF files[i].padding > 0
          THEN <<C7_FileDict(files[i]), C7_PadDict(files[i])>>
          ELSE <<C7_FileDict(files[i])>>) \o C7_Entries(i + 1)

\* the position of file i's own dictionary in `files`, given C7_Entries
C7_PosOf(i) == i + Cardinality({j \in 1..(i - 1) : files[j].padding > 0})

C7_MultiFileDone == phase = "done" /\ write_v1 /\ ~SingleFileMode

\* C7 (first part): `files` holds, in file order, each file's dictionary,
\* followed by a padding dictionary exactly when the file's padding > 0.
C7_FilesListShape ==
    C7_MultiFileDone => ret.val["info"].val["files"].val = C7_Entries(1)

\* C7: `files` holds, in file order, each file's dictionary followed by a
\* padding dictionary exactly when the file's padding > 0, and no padding
\* dictionary follows the last data-bearing file.
C7_FilesListWithPadding ==
    C7_MultiFileDone =>
        LET fl == ret.val["info"].val["files"].val
        IN  /\ fl = C7_Entries(1)
            /\ LastDataIndex > 0 =>
                   \/ C7_PosOf(LastDataIndex) = Len(fl)
                   \/ "attr" \notin DOMAIN fl[C7_PosOf(LastDataIndex) + 1].val

AnnouncePanics == {"announces[0] out of range", "announces[0][0] out of range"}

\* C8: for every configuration the constructor accepts, hash() does not fail
\* on the trackers, the outer dictionary has `announce` (the first URL of the
\* first tier) iff announces is non-empty, and `announce-list` (equal to
\* announces) iff there are several tiers or the first tier has several URLs.
C8_AnnounceKeys ==
    /\ phase = "panicked" => panic \notin AnnouncePanics
    /\ phase = "done" =>
        LET d == ret.val
            several == Len(announces) > 1
                       \/ (Len(announces) = 1 /\ Len(announces[1]) > 1)
        IN  /\ ("announce" \in DOMAIN d) <=> (Len(announces) > 0)
            /\ Len(announces) > 0 =>
                   d["announce"] = [tag |-> "Bytes", val |-> announces[1][1]]
            /\ ("announce-list" \in DOMAIN d) <=> several
            /\ several =>
                   /\ d["announce-list"].tag = "List"
                   /\ Len(d["announce-list"].val) = Len(announces)
                   /\ \A t \in 1..Len(announces) :
                          d["announce-list"].val[t] =
                              [tag |-> "List",
                               val |-> [u \in 1..Len(announces[t]) |->
                                   [tag |-> "Bytes", val |-> announces[t][u]]]]

\* C9: the outer dictionary has `url-list` iff webseeds is non-empty: a byte
\* string for one webseed, the list of the webseeds in order for several.
C9_UrlList ==
    phase = "done" =>
        LET d == ret.val
        IN  /\ ("url-list" \in DOMAIN d) <=> (Len(webseeds) > 0)
            /\ Len(webseeds) = 1 =>
                   /\ d["url-list"].tag = "Bytes"
                   /\ d["url-list"].val = webseeds[1]
            /\ Len(webseeds) > 1 =>
                   /\ d["url-list"].tag = "List"
                   /\ Len(d["url-list"].val) = Len(webseeds)
                   /\ \A k \in 1..Len(webseeds) :
                          /\ d["url-list"].val[k].tag = "Bytes"
                          /\ d["url-list"].val[k].val = webseeds[k]

\* a torrent with exactly one webseed has been assembled
C9_Witness ==
    /\ phase = "done"
    /\ Len(webseeds) = 1
    /\ ret.val["url-list"].tag = "Bytes"

PieceLayerPanics ==
    {"merkle_tree.last() is None", "merkle_tree.get(piece_level) is None",
     "assert key.len() == 32", "assert val.len() > 32"}

RootOf(i) == Last(merkle_tree[i])[1]

\* C10: with v2 output, `piece layers` has exactly the pieces roots of the
\* files longer than piece_size as keys; the value of a file is its Merkle
\* layer piece_level, which exists and has ceil(merkle_piece_count /
\* piece_factor) >= 2 hashes; the assembler's checks on keys and values never
\* fail.
C10_PieceLayers ==
    /\ phase = "panicked" => panic \notin PieceLayerPanics
    /\ (phase = "done" /\ write_v2) =>
        LET pl == ret.val["piece layers"].val
            long == {i \in 1..Len(files) : files[i].len > piece_size}
            short == {i \in 1..Len(files) : files[i].len > 0} \ long
        IN  /\ ret.val["piece layers"].tag = "Map"
            /\ DOMAIN pl = {RootOf(i) : i \in long}
            /\ \A i \in short : RootOf(i) \notin DOMAIN pl
            /\ \A i \in long :
                /\ Len(merkle_tree[i]) >= piece_level + 1
                /\ pl[RootOf(i)].tag = "Bytes"
                /\ pl[RootOf(i)].val = merkle_tree[i][piece_level + 1]
                /\ Len(pl[RootOf(i)].val)
                       = CeilDiv(files[i].merkle_piece_count, piece_factor)
                /\ Len(pl[RootOf(i)].val) >= 2
                /\ Len(Last(merkle_tree[i])) = 1

\* assembled with v2: a file longer than a piece of several blocks beside a
\* file of exactly one piece
C10_Witness ==
    /\ phase = "done" /\ write_v2
    /\ piece_factor > 1
    /\ \E i \in 1..Len(files) : files[i].len > piece_size
    /\ \E i \in 1..Len(files) : files[i].len > 0 /\ files[i].len <= piece_size
    /\ DOMAIN ret.val["piece layers"].val # {}

\* the least power of two that is >= n, for n >= 1
RECURSIVE NextPow2From(_, _)
NextPow2From(p, n) == IF p >= n THEN p ELSE NextPow2From(2 * p, n)

\* the root of the complete binary tree over a power-of-two number of leaves
RECURSIVE FullTreeRoot(_)
FullTreeRoot(leaves) ==
    IF Len(leaves) = 1 THEN leaves[1]
    ELSE LET h == Len(leaves) \div 2
         IN  <<"node", FullTreeRoot(SubSeq(leaves, 1, h)),
                       FullTreeRoot(SubSeq(leaves, h + 1, Len(leaves)))>>

\* the leaves right-padded with all-zero leaves to the next power of two
PaddedLeaves(leaves) ==
    leaves \o [k \in 1..(NextPow2From(1, Len(leaves)) - Len(leaves)) |-> <<"zero">>]

MerklePanics ==
    {"merkle_tree.get(level) is None", "assert src.len() != 32",
     "filler_sha256.get(level) is None"}

MerkleOver == phase \in {"merkled", "done"}

\* C11: Merkle completion never fails; for every file of n >= 1 leaves it
\* ends with a last layer of exactly one hash, layer k has ceil(n / 2^k)
\* hashes, and the last layer's hash is the root of the complete binary tree
\* over the n leaves right-padded with all-zero leaves to the next power of
\* two (for n = 1 the leaf itself).
C11_MerkleRoot ==
    /\ phase = "panicked" => panic \notin MerklePanics
    /\ MerkleOver =>
        \A i \in 1..Len(files) :
            files[i].len > 0 =>
                LET n == CeilDiv(files[i].len, MERKLE_PIECE_SIZE)
                    t == merkle_tree[i]
                IN  /\ Len(t[1]) = n
                    /\ Len(Last(t)) = 1
                    /\ Pow2(Len(t) - 1) = NextPow2From(1, n)
                    /\ \A k \in 0..(Len(t) - 1) :
                           Len(t[k + 1]) = CeilDiv(n, Pow2(k))
                    /\ Last(t)[1] = FullTreeRoot(PaddedLeaves(t[1]))
                    /\ n = 1 => Last(t)[1] = t[1][1]

\* completed: a tree with a lone hash at layer 0 and at layer 1
C11_Witness ==
    /\ phase = "merkled"
    /\ \E i \in 1..Len(files) :
           /\ Len(merkle_tree[i]) >= 3
           /\ Len(merkle_tree[i][1]) % 2 = 1
           /\ Len(merkle_tree[i][2]) % 2 = 1
           /\ Len(Last(merkle_tree[i])) = 1

\* the value found in the nested maps of t by following the keys of comps,
\* NoEntry if a key is missing or a value on the way is not a map
NoEntry == [tag |-> "None", val |-> <<>>]

RECURSIVE TreeLookup(_, _)
TreeLookup(v, comps) ==
    IF v.tag # "Map" THEN NoEntry
    ELSE IF comps = <<>> THEN v
    ELSE IF Head(comps) \notin DOMAIN v.val THEN NoEntry
    ELSE TreeLookup(v.val[Head(comps)], Tail(comps))

\* {length, pieces root} of file i, pieces root only for a file with data
C12_Leaf(i) ==
    IF files[i].len > 0
    THEN [tag |-> "Map",
          val |-> ("length" :> [tag |-> "Integer", val |-> files[i].len])
                  @@ ("pieces root" :> [tag |-> "Bytes",
                                        val |-> <<RootOf(i)>>])]
    ELSE [tag |-> "Map",
          val |-> ("length" :> [tag |-> "Integer", val |-> 0])]

\* C12: with v2 output, `file tree` has for every file a chain of nested maps
\* keyed by its path components that ends in a map whose empty-string key
\* holds {length, pieces root}, pieces root being there iff length > 0; the
\* first component is skipped when every file has at least two components
\* and kept otherwise.
C12_FileTree ==
    (phase = "done" /\ write_v2) =>
        LET ft == ret.val["info"].val["file tree"]
            skip == IF \A i \in 1..Len(files) : Len(files[i].path) >= 2
                    THEN 1 ELSE 0
        IN  \A i \in 1..Len(files) :
                LET comps == SubSeq(files[i].path, skip + 1, Len(files[i].path))
                    at == TreeLookup(ft, comps)
                IN  /\ comps # <<>>
                    /\ at.tag = "Map"
                    /\ "" \in DOMAIN at.val
                    /\ at.val[""] = C12_Leaf(i)
                    /\ \A n \in 1..(Len(comps) - 1) :
                           "" \notin DOMAIN TreeLookup(ft, SubSeq(comps, 1, n)).val

\* assembled with v2: an empty file beside a subdirectory that holds a file
\* with data
C12_Witness ==
    /\ phase = "done" /\ write_v2
    /\ \E i, j \in 1..Len(files) :
           /\ files[i].len = 0 /\ Len(files[i].path) = 2
           /\ files[j].len > 0 /\ Len(files[j].path) = 3
           /\ "s" \in DOMAIN ret.val["info"].val["file tree"].val
           /\ "d" \notin DOMAIN ret.val["info"].val["file tree"].val

\* the number of v1 hashes of the files before file i
RECURSIVE C13_HashesBefore(_)
C13_HashesBefore(i) ==
    IF i <= 1 THEN 0 ELSE C13_HashesBefore(i - 1) + Len(hash_v1[i - 1])

\* C13: with v1 output, info has `length` and no `files` iff there is exactly
\* one file and it has exactly one path component, and `files` and no
\* `length` in every other case; `pieces` is the concatenation of every
\* file's v1_hashes in file order.
C13_SingleOrMulti ==
    (phase = "done" /\ write_v1) =>
        LET info == ret.val["info"].val
            single == Len(files) = 1 /\ Len(files[1].path) = 1
        IN  /\ ("length" \in DOMAIN info) <=> single
            /\ ("files" \in DOMAIN info) <=> ~single
            /\ single => info["length"] = [tag |-> "Integer", val |-> files[1].len]
            /\ ~single => info["files"].tag = "List"
            /\ "pieces" \in DOMAIN info
            /\ info["pieces"].tag = "Bytes"
            /\ Len(info["pieces"].val) = C13_HashesBefore(Len(files) + 1)
            /\ \A i \in 1..Len(files) : \A k \in 1..Len(hash_v1[i]) :
                   info["pieces"].val[C13_HashesBefore(i) + k] = hash_v1[i][k]

\* assembled with v1: a directory that holds one file is written with `files`
C13_Witness ==
    /\ phase = "done" /\ write_v1
    /\ Len(files) = 1 /\ Len(files[1].path) = 2
    /\ Len(hash_v1[1]) >= 2
    /\ "files" \in DOMAIN ret.val["info"].val

\* the piece size C14 speaks of, for the input's total size
C14_Expected ==
    IF user_piece_size.some THEN user_piece_size.val
    ELSE IF SumLen(walked_files) < LARGE_TOTAL_SIZE THEN DEFAULT_PIECE_SIZE
    ELSE LARGE_PIECE_SIZE

\* the positions at which the piece size has been decided, on either path
C14_Decided ==
    phase \in {"constructed", "planning", "hashing", "hashed", "merkled",
               "v1_hashing", "v1_hashed", "done"}

\* C14: the piece size used for hashing and written as `piece length` is the
\* caller's piece size when one is given; otherwise it is 256 KiB for a total
\* input size below 50 GiB and 1 MiB from 50 GiB on, on the hybrid path and on
\* the v1-only path.
C14_PieceSizePolicy ==
    /\ C14_Decided => piece_size = C14_Expected
    /\ phase = "done" =>
           ret.val["info"].val["piece length"]
               = [tag |-> "Integer", val |-> C14_Expected]

\* the configurations C15 calls invalid
C15_Invalid ==
    \/ user_piece_size.some
           /\ (~IsPow2(user_piece_size.val)
               \/ user_piece_size.val < MIN_PIECE_SIZE
               \/ user_piece_size.val > MAX_PIECE_SIZE)
    \/ ~write_v1 /\ ~write_v2
    \/ no_padding /\ (write_v2 \/ ~write_v1 \/ thread_num # 1)
    \/ walked_files = <<>>
    \/ announces = <<>> /\ nodes = <<>>
    \/ thread_num = 0

\* no job was planned, no file was hashed, nothing was assembled or written
C15_NoWork ==
    /\ planned = <<>> /\ tasks = <<>>
    /\ workers = <<>>
    /\ hasher.hashes = <<>> /\ hasher.hash_context = <<>>
    /\ ret = NoValue
    /\ out = <<>>

\* C15: every invalid configuration is rejected before any job is planned,
\* any file is hashed or any output is produced: the run of an invalid
\* configuration never gets to planning, hashing, assembling or writing.
C15_InvalidRejectedEarly ==
    C15_Invalid =>
        /\ C15_NoWork
        /\ phase \notin {"planning", "hashing", "hashed", "merkled", "done",
                         "failed"}
        /\ (phase = "rejected" \/ walked_files = <<>> \/ phase = "cli")

\* rejected by check(): a command line whose only fault is threads = 0
C15_Witness ==
    /\ phase = "rejected"
    /\ thread_num = 0
    /\ write_v1 /\ write_v2 /\ ~no_padding
    /\ walked_files # <<>> /\ announces # <<>>
    /\ ~user_piece_size.some

\* a worker failed to open or map the file of a job
C16_OpenFailed ==
    \E i \in unreadable : \E n \in 1..Len(planned) :
        /\ planned[n].file = i
        /\ \A m \in 1..Len(tasks) : tasks[m] # planned[n]
        /\ \E w \in DOMAIN workers : workers[w].pc = "panicked"

\* C16: if opening or mapping the file of a job fails in a worker, hash()
\* returns an error to its caller: it neither returns a BencodeValue nor
\* panics.
C16_OpenFailureIsReturned ==
    /\ C16_OpenFailed => phase \in {"hashing", "failed"}
    /\ phase = "panicked" => panic # "worker thread panicked"
    /\ (\E i \in unreadable : files # <<>> /\ files[i].len > 0) => phase # "done"

\* ---- a bencode reader, to read back what serialize wrote
Unreadable == [ok |-> FALSE, val |-> <<>>, next |-> 0]

RECURSIVE DigitsEnd(_, _)
DigitsEnd(s, pos) ==
    IF pos <= Len(s) /\ s[pos] \in 48..57 THEN DigitsEnd(s, pos + 1) ELSE pos

\* the number written in s[a .. b - 1]
RECURSIVE DigitsValue(_, _, _)
DigitsValue(s, a, b) ==
    IF b <= a THEN 0 ELSE 10 * DigitsValue(s, a, b - 1) + (s[b - 1] - 48)

\* at least one digit, no leading zero
CanonicalDigits(s, a, b) == b > a /\ (s[a] # 48 \/ b = a + 1)

\* key a comes strictly before key b in byte order
RECURSIVE BytesBefore(_, _)
BytesBefore(a, b) ==
    IF b = <<>> THEN FALSE
    ELSE IF a = <<>> THEN TRUE
    ELSE IF Head(a) # Head(b) THEN Head(a) < Head(b)
    ELSE BytesBefore(Tail(a), Tail(b))

\* reads one value at pos; with `ordered` the keys of every dictionary must
\* be strictly ascending, without it a repeated key takes the later value
RECURSIVE ReadValue(_, _, _)
RECURSIVE ReadItems(_, _, _, _)
RECURSIVE ReadEntries(_, _, _, _, _)
ReadValue(s, pos, ordered) ==
    IF pos > Len(s) THEN Unreadable
    ELSE IF s[pos] = 105
        THEN LET neg == pos + 1 <= Len(s) /\ s[pos + 1] = 45
                 a == IF neg THEN pos + 2 ELSE pos + 1
                 b == DigitsEnd(s, a)
                 n == DigitsValue(s, a, b)
             IN  IF CanonicalDigits(s, a, b) /\ ~(neg /\ n = 0)
                    /\ b <= Len(s) /\ s[b] = 101
                 THEN [ok |-> TRUE,
                       val |-> [tag |-> "Integer",
                                val |-> IF neg THEN 0 - n ELSE n],
                       next |-> b + 1]
                 ELSE Unreadable
    ELSE IF s[pos] \in 48..57
        THEN LET b == DigitsEnd(s, pos)
                 n == DigitsValue(s, pos, b)
             IN  IF CanonicalDigits(s, pos, b) /\ b <= Len(s) /\ s[b] = 58
                    /\ b + n <= Len(s)
                 THEN [ok |-> TRUE,
                       val |-> [tag |-> "Bytes", val |-> SubSeq(s, b + 1, b + n)],
                       next |-> b + n + 1]
                 ELSE Unreadable
    ELSE IF s[pos] = 108 THEN ReadItems(s, pos + 1, ordered, <<>>)
    ELSE IF s[pos] = 100 THEN ReadEntries(s, pos + 1, ordered, <<>>, <<>>)
    ELSE Unreadable

ReadItems(s, pos, ordered, acc) ==
    IF pos > Len(s) THEN Unreadable
    ELSE IF s[pos] = 101
        THEN [ok |-> TRUE, val |-> [tag |-> "List", val |-> acc], next |-> pos + 1]
    ELSE LET r == ReadValue(s, pos, ordered)
         IN  IF r.ok THEN ReadItems(s, r.next, ordered, Append(acc, r.val))
             ELSE Unreadable

\* keys: the keys read so far, in the order read; vals: their values
ReadEntries(s, pos, ordered, keys, vals) ==
    IF pos > Len(s) THEN Unreadable
    ELSE IF s[pos] = 101
        THEN [ok |-> TRUE,
              val |-> [tag |-> "Map",
                       val |-> [k \in {keys[i] : i \in 1..Len(keys)} |->
                                   vals[CHOOSE i \in 1..Len(keys) :
                                            /\ keys[i] = k
                                            /\ \A j \in (i + 1)..Len(keys) :
                                                   keys[j] # k]]],
              next |-> pos + 1]
    ELSE IF s[pos] \notin 48..57 THEN Unreadable
    ELSE LET k == ReadValue(s, pos, ordered)
         IN  IF ~k.ok THEN Unreadable
             ELSE IF ordered /\ keys # <<>>
                     /\ ~BytesBefore(keys[Len(keys)], k.val.val)
                 THEN Unreadable
             ELSE LET v == ReadValue(s, k.next, ordered)
                  IN  IF v.ok
                      THEN ReadEntries(s, v.next, ordered,
                                       Append(keys, k.val.val), Append(vals, v.val))
                      ELSE Unreadable

\* a and b are the same BencodeValue
RECURSIVE SameValue(_, _)
SameValue(a, b) ==
    /\ a.tag = b.tag
    /\ IF a.tag = "List"
       THEN /\ Len(a.val) = Len(b.val)
            /\ \A i \in 1..Len(a.val) : SameValue(a.val[i], b.val[i])
       ELSE IF a.tag = "Map"
       THEN /\ DOMAIN a.val = DOMAIN b.val
            /\ \A k \in DOMAIN a.val : SameValue(a.val[k], b.val[k])
       ELSE a.val = b.val

\* the output for a value of the given tag (and payload)
C17_Is(tag, val) == ret.tag = tag /\ ret.val = val

\* C17: serialize is total and writes the bencoding of every value: read
\* back, the output is the value again, with integers as i<decimal>e without
\* leading zeros and with a minus sign only for negatives, byte strings as
\* <length>:<bytes>, lists as l<items in order>e; the reference vectors i0e,
\* i-42e, 0:, 3:foo, le and de come out as such.
C17_SerializeIsBencoding ==
    phase = "written" =>
        /\ LET r == ReadValue(out, 1, FALSE)
           IN  r.ok /\ r.next = Len(out) + 1 /\ SameValue(r.val, ret)
        /\ C17_Is("Integer", 0) => out = <<105, 48, 101>>
        /\ C17_Is("Integer", 0 - 42) => out = <<105, 45, 52, 50, 101>>
        /\ C17_Is("Integer", 100) => out = <<105, 49, 48, 48, 101>>
        /\ C17_Is("Bytes", <<>>) => out = <<48, 58>>
        /\ C17_Is("Bytes", <<102, 111, 111>>) => out = <<51, 58, 102, 111, 111>>
        /\ (ret.tag = "List" /\ ret.val = <<>>) => out = <<108, 101>>
        /\ (ret.tag = "Map" /\ DOMAIN ret.val = {}) => out = <<100, 101>>
        /\ ret.tag = "List" =>
               /\ out[1] = 108 /\ out[Len(out)] = 101
               /\ \A i \in 1..Len(ret.val) :
                      (ret.val[i].tag = "List" /\ ret.val[i].val = <<>>) =>
                          \E p \in 2..(Len(out) - 2) :
                              out[p] = 108 /\ out[p + 1] = 101

\* written: a list of a negative integer and a byte string
C17_Witness ==
    /\ phase = "written"
    /\ ret.tag = "List" /\ Len(ret.val) = 2
    /\ ret.val[1].tag = "Integer" /\ ret.val[1].val < 0
    /\ ret.val[2].tag = "Bytes"
    /\ out = <<108, 105, 45, 52, 50, 101, 51, 58, 102, 111, 111, 101>>

\* C18: for every Map, at every nesting level, serialize writes d, then each
\* key as a length-prefixed byte string followed by its value, the keys in
\* strictly ascending byte order and none twice, then e; a key inserted again
\* has the value of the last insert.
C18_KeysAscending ==
    phase = "written" =>
        /\ LET r == ReadValue(out, 1, TRUE)
           IN  r.ok /\ r.next = Len(out) + 1 /\ SameValue(r.val, ret)
        /\ ret.tag = "Map" =>
               /\ out[1] = 100 /\ out[Len(out)] = 101
               /\ \E ks \in [1..Cardinality(DOMAIN ret.val) -> DOMAIN ret.val] :
                      /\ \A i \in 1..(Len(ks) - 1) : BytesBefore(ks[i], ks[i + 1])
                      /\ out = <<100>>
                               \o Concat([i \in 1..Len(ks) |->
                                      DecimalBytes(Len(ks[i])) \o <<58>> \o ks[i]
                                          \o Serialize(ret.val[ks[i]])])
                               \o <<101>>

\* written: a map in a map, the inner one with a key that is a prefix of
\* another and with the empty key
C18_Witness ==
    /\ phase = "written"
    /\ ret.tag = "Map" /\ Depth(ret) = 2
    /\ \E k \in DOMAIN ret.val :
           /\ ret.val[k].tag = "Map"
           /\ {<<98, 97>>, <<98, 97, 114>>} \subseteq DOMAIN ret.val[k].val

\* the offset of file i in the concatenation of the files
RECURSIVE C19_Start(_)
C19_Start(i) == IF i <= 1 THEN 0 ELSE C19_Start(i - 1) + files[i - 1].len

\* the bytes [lo, hi) of the concatenation as the parts of the files they
\* are, in file order
RECURSIVE C19_Parts(_, _, _)
C19_Parts(i, lo, hi) ==
    IF i > Len(files) THEN <<>>
    ELSE LET a == IF lo > C19_Start(i) THEN lo ELSE C19_Start(i)
             b == Min(hi, C19_Start(i) + files[i].len)
         IN  (IF a < b
              THEN << <<"data", i, a - C19_Start(i), b - C19_Start(i)>> >>
              ELSE <<>>) \o C19_Parts(i + 1, lo, hi)

\* C19: on the v1-only path hashed_size is in [0, piece_size) between the
\* calls, and after visit_end there are exactly ceil(T / piece_size) hashes,
\* hash k being the SHA-1 of the bytes [k * piece_size, min((k + 1) *
\* piece_size, T)) of the concatenation of the files, across file boundaries
\* and without zero padding.
C19_UnpaddedPieces ==
    /\ phase \in {"v1_hashing", "v1_hashed", "done"} =>
           /\ hasher.piece_size = piece_size
           /\ hasher.hashed_size >= 0
           /\ hasher.hashed_size < hasher.piece_size
    /\ phase = "v1_hashing" =>
           LET seen == C19_Start(hash_i)
           IN  /\ Len(hasher.hashes) = seen \div piece_size
               /\ hasher.hashed_size = seen % piece_size
    /\ phase \in {"v1_hashed", "done"} =>
           LET T == SumLen(walked_files)
           IN  /\ Len(hasher.hashes) = CeilDiv(T, piece_size)
               /\ hasher.hashed_size = 0
               /\ \A k \in 1..Len(hasher.hashes) :
                      hasher.hashes[k] =
                          <<"sha1", C19_Parts(1, (k - 1) * piece_size,
                                              Min(k * piece_size, T))>>
    /\ phase = "done" =>
           ret.val["info"].val["pieces"]
               = [tag |-> "Bytes", val |-> hasher.hashes]

\* hashed: a piece that spans two files, and a short last piece
C19_Witness ==
    /\ phase = "v1_hashed"
    /\ Len(files) >= 2
    /\ SumLen(walked_files) % piece_size # 0
    /\ \E k \in 1..Len(hasher.hashes) : Len(hasher.hashes[k][2]) >= 2
    /\ Len(hasher.hashes) >= 2

\* some file's first path component is not the torrent name
C20_MixedRoots ==
    \E i \in 1..Len(walked_files) :
        walked_files[i].path[1] # walked_files[1].path[1]

IsLastJobOf(n, i) == \A m \in JobsOf(i) : m <= n

\* a job that got fewer leaves than its v1 pieces span
C21_Short(n) ==
    planned[n].v2_pieces < planned[n].v1_pieces * piece_factor

\* C21, as stated: every planned job has v2_pieces <= v1_pieces *
\* piece_factor, and v2_pieces < v1_pieces * piece_factor only for the last
\* job of a file whose length is not a multiple of 16 KiB.
C21_ShortOnlyOffBlock ==
    \A n \in 1..Len(planned) :
        /\ planned[n].v2_pieces <= planned[n].v1_pieces * piece_factor
        /\ C21_Short(n) =>
               /\ IsLastJobOf(n, planned[n].file)
               /\ files[planned[n].file].len % MERKLE_PIECE_SIZE # 0

\* C21, amended: every planned job has v2_pieces <= v1_pieces *
\* piece_factor, and v2_pieces < v1_pieces * piece_factor exactly for the
\* last job of a file whose number of 16 KiB leaves, ceil(L / 16 KiB), is
\* not a multiple of piece_factor (the file's last v1 piece is not full of
\* leaves), whether or not L itself is a multiple of 16 KiB.
C21_LeavesPerJob ==
    \A n \in 1..Len(planned) :
        /\ planned[n].v2_pieces <= planned[n].v1_pieces * piece_factor
        /\ C21_Short(n) <=>
               /\ IsLastJobOf(n, planned[n].file)
               /\ CeilDiv(files[planned[n].file].len, MERKLE_PIECE_SIZE)
                      % piece_factor # 0

\* a file of a whole number of 16 KiB blocks cut into several jobs, the last
\* of which has fewer leaves than its pieces span, beside a full job
C21_Witness ==
    /\ PlannerDone
    /\ \E n \in 1..Len(planned) :
           /\ C21_Short(n)
           /\ files[planned[n].file].len % MERKLE_PIECE_SIZE = 0
           /\ ~IsLastJobOf(n - 1, planned[n].file)
           /\ n > 1 /\ planned[n - 1].file = planned[n].file
           /\ ~C21_Short(n - 1)

\* file i has been through the planner
C22_Planned(i) == PlanningOver \/ (phase = "planning" /\ i < plan_i)

\* the index in planned of the k-th job of file i (k from 1)
JobAt(i, k) == (CHOOSE n \in JobsOf(i) : \A m \in JobsOf(i) : n <= m) + k - 1

RECURSIVE C22_SumPieces(_, _)
C22_SumPieces(i, k) ==
    IF k = 0 THEN 0 ELSE planned[JobAt(i, k)].v1_pieces + C22_SumPieces(i, k - 1)

\* C22: a file of length L > 0 with c = ceil(L / piece_size) v1 pieces gets
\* num_jobs = ceil(L / MAX_JOB_BYTES) jobs; the first (c mod num_jobs) jobs
\* have ceil(c / num_jobs) pieces and the others floor(c / num_jobs), so the
\* counts sum to c and differ by at most one, every job has at least one v1
\* piece and at least one leaf, and the planner's panic on
\* left_merkle_piece == 0 never happens.
C22_PiecesPerJob ==
    /\ panic # "left_merkle_piece==0"
    /\ \A i \in 1..Len(files) :
        (C22_Planned(i) /\ files[i].len > 0) =>
            LET c == CeilDiv(files[i].len, piece_size)
                num_jobs == CeilDiv(files[i].len, MAX_JOB_BYTES)
            IN  /\ Cardinality(JobsOf(i)) = num_jobs
                /\ JobsOf(i) = {JobAt(i, k) : k \in 1..num_jobs}
                /\ \A k \in 1..num_jobs :
                       planned[JobAt(i, k)].v1_pieces =
                           IF k <= c % num_jobs THEN CeilDiv(c, num_jobs)
                           ELSE c \div num_jobs
                /\ C22_SumPieces(i, num_jobs) = c
                /\ \A n, m \in JobsOf(i) :
                       planned[n].v1_pieces - planned[m].v1_pieces \in -1..1
                /\ \A n \in JobsOf(i) :
                       planned[n].v1_pieces >= 1 /\ planned[n].v2_pieces >= 1

\* a file whose pieces do not divide evenly among its jobs, beside a file
\* of a single job
C22_Witness ==
    /\ PlannerDone
    /\ \E i \in 1..Len(files) :
           /\ Cardinality(JobsOf(i)) >= 2
           /\ files[i].hash_v1_piece_count % Cardinality(JobsOf(i)) # 0
           /\ planned[JobAt(i, 1)].v1_pieces > planned[JobAt(i, 2)].v1_pieces
    /\ \E i \in 1..Len(files) : Cardinality(JobsOf(i)) = 1

\* C23: the jobs of a file of length L > 0 have consecutive byte ranges
\* [offset, offset + data_len) that partition [0, L): the k-th job starts at
\* piece_offset * piece_size, where piece_offset is the number of pieces of
\* the jobs before it, data_len = min((piece_offset + v1_pieces) *
\* piece_size, L) - offset with 0 < data_len <= v1_pieces * piece_size, and
\* only the last job of the file may have data_len < v1_pieces * piece_size;
\* a file of length 0 has no job.
C23_ByteRanges ==
    \A i \in 1..Len(files) :
        C22_Planned(i) =>
            /\ files[i].len = 0 => JobsOf(i) = {}
            /\ files[i].len > 0 =>
                LET num == Cardinality(JobsOf(i))
                    L == files[i].len
                IN  /\ num >= 1
                    /\ planned[JobAt(i, 1)].offset = 0
                    /\ planned[JobAt(i, num)].offset
                           + planned[JobAt(i, num)].data_len = L
                    /\ \A k \in 1..num :
                        LET j == planned[JobAt(i, k)]
                            piece_offset == C22_SumPieces(i, k - 1)
                        IN  /\ j.file = i
                            /\ j.offset = piece_offset * piece_size
                            /\ j.offset % piece_size = 0
                            /\ j.data_len =
                                   Min((piece_offset + j.v1_pieces) * piece_size, L)
                                       - j.offset
                            /\ 0 < j.data_len
                            /\ j.data_len <= j.v1_pieces * piece_size
                            /\ j.data_len < j.v1_pieces * piece_size => k = num
                            /\ k < num =>
                                   planned[JobAt(i, k + 1)].offset
                                       = j.offset + j.data_len

\* a file of several jobs whose last job is short, beside an empty file
C23_Witness ==
    /\ PlannerDone
    /\ \E i \in 1..Len(files) : files[i].len = 0
    /\ \E i \in 1..Len(files) :
           LET num == Cardinality(JobsOf(i))
           IN  /\ num >= 2
               /\ planned[JobAt(i, 2)].offset > 0
               /\ planned[JobAt(i, num)].data_len
                      < planned[JobAt(i, num)].v1_pieces * piece_size

\* the end of the range the job's v1 pieces cover
C24_HashRBound(job) == job.offset + job.v1_pieces * job.v1_piece_size

\* worker w has walked a job to its end and passed the three assertions
C24_Finished(w) == workers[w].pc \in {"pop", "exited"} /\ workers[w].job # NoJob

\* the worker state while a job is walked and after it
C24_WalkState ==
    \A w \in DOMAIN workers :
        LET me == workers[w]
            job == me.job
        IN  /\ me.pc # "panicked"
            /\ me.pc = "loop" =>
                   /\ \E n \in 1..Len(planned) : planned[n] = job
                   /\ job.offset <= me.cursor
                   /\ me.cursor <= job.offset + job.data_len
                   /\ me.finished_v2_pieces
                          = (me.cursor - job.offset) \div MERKLE_PIECE_SIZE
                   /\ me.finished_v1_pieces
                          = (me.cursor - job.offset) \div job.v1_piece_size
            /\ C24_Finished(w) =>
                   /\ me.cursor = job.offset + job.data_len
                   /\ me.cursor <= C24_HashRBound(job)
                   /\ me.finished_v1_pieces = job.v1_pieces
                   /\ me.finished_v2_pieces = job.v2_pieces

\* a step writes only slots of the slices of a job some worker is walking
C24_WritesInSlice ==
    /\ \A i \in DOMAIN writes_v1 : \A k \in DOMAIN writes_v1[i] :
           writes_v1'[i][k] # writes_v1[i][k] =>
               \E w \in DOMAIN workers :
                   /\ workers[w].pc = "loop" /\ workers[w].job.file = i
                   /\ \A b \in ((k - 1) * SHA1_LEN)..(k * SHA1_LEN - 1) :
                          b \in SliceBytes(workers[w].job.v1_hash)
    /\ \A i \in DOMAIN writes_v2 : \A k \in DOMAIN writes_v2[i] :
           writes_v2'[i][k] # writes_v2[i][k] =>
               \E w \in DOMAIN workers :
                   /\ workers[w].pc = "loop" /\ workers[w].job.file = i
                   /\ \A b \in ((k - 1) * SHA256_LEN)..(k * SHA256_LEN - 1) :
                          b \in SliceBytes(workers[w].job.v2_hash)

\* C24: for every planned job the worker's walk in 16 KiB chunks ends with
\* cursor <= offset + v1_pieces * piece_size, finished_v1_pieces = v1_pieces
\* and finished_v2_pieces = v2_pieces, no step writes a slot outside the
\* v1_hash or v2_hash slice of the job being walked, and no worker fails an
\* assertion or a slice index, also when the data ends on a 16 KiB boundary
\* that is not a piece boundary.
C24_WalkMeetsAssertions == []C24_WalkState /\ [][C24_WritesInSlice]_vars

\* every job has been walked and one of them ended on a 16 KiB boundary
\* short of its last piece's end
C24_Witness ==
    /\ phase = "hashed"
    /\ \E w \in DOMAIN workers :
           /\ C24_Finished(w)
           /\ workers[w].cursor % MERKLE_PIECE_SIZE = 0
           /\ workers[w].cursor < C24_HashRBound(workers[w].job)

\* every job of every file is in the queue's history, none is still to plan
C25_AllPushed ==
    /\ plan_i > Len(files)
    /\ \A i \in 1..Len(files) :
           Cardinality(JobsOf(i)) =
               IF files[i].len = 0 THEN 0 ELSE CeilDiv(files[i].len, MAX_JOB_BYTES)

\* every file that has data has its tree up to a layer of one hash
C25_TreesComplete ==
    \A i \in 1..Len(files) :
        files[i].len > 0 => Len(merkle_tree[i][Len(merkle_tree[i])]) = 1

\* what a step of each phase finds done
C25_StepOrder ==
    /\ (workers # <<>> /\ workers' # workers) =>
           /\ C25_AllPushed
           /\ planned' = planned
    /\ Len(tasks') < Len(tasks) => C25_AllPushed
    /\ (\/ phase = "hashed" /\ phase' # phase
        \/ \E i \in DOMAIN merkle_tree :
               /\ i \in DOMAIN merkle_tree'
               /\ Len(merkle_tree'[i]) > Len(merkle_tree[i])) =>
           /\ \A w \in DOMAIN workers : workers[w].pc = "exited"
           /\ workers # <<>> /\ workers' = workers
           /\ tasks = <<>>
           /\ UNCHANGED <<writes_v1, writes_v2, hash_v1>>
    /\ ret' # ret =>
           /\ phase = "merkled"
           /\ C25_TreesComplete
           /\ merkle_tree' = merkle_tree

\* what each phase leaves alone
C25_PhaseState ==
    /\ phase \in {"start", "constructed", "planning"} => workers = <<>>
    /\ phase \in {"start", "constructed", "planning", "hashing", "hashed"} =>
           \A i \in DOMAIN merkle_tree : Len(merkle_tree[i]) <= 1
    /\ phase # "done" => ret = NoValue

\* C25: the phases of hash() are strictly ordered: a worker exists and pops a
\* job only when every job of every file has been pushed to the queue,
\* Merkle completion starts and adds layers only when every worker has
\* exited (and the queue is empty), and the dictionary is assembled only
\* when every file's tree has been completed.
C25_PhasesOrdered == []C25_PhaseState /\ [][C25_StepOrder]_vars

\* the dictionary has been assembled after two workers hashed several jobs
\* of several files and a tree of several layers was completed
C25_Witness ==
    /\ phase = "done" /\ ret # NoValue
    /\ Cardinality(BusyWorkers) >= 2
    /\ Len(files) >= 2 /\ Len(planned) >= 3
    /\ \E i \in 1..Len(files) : Len(merkle_tree[i]) >= 3

RECURSIVE SumSeq(_)
SumSeq(q) == IF q = <<>> THEN 0 ELSE Head(q) + SumSeq(Tail(q))

\* the bytes the workers have sent so far
C26_Sent ==
    LET RECURSIVE Upto(_)
        Upto(w) == IF w = 0 THEN 0 ELSE workers[w].byte_count + Upto(w - 1)
    IN  Upto(Len(workers))

\* the hash phase at any moment: nothing sent is lost, some thread can take a
\* step, a worker that has not ended can always take its next step whatever
\* the channel holds, the UI thread
\* ends only when no Sender is left and the channel is drained, and the
\* phase ends with every thread ended and every data byte reported
C26_State ==
    /\ phase \in {"hashing", "hashed", "merkled", "done"} =>
           /\ ui_thread.reported + SumSeq(progress_rx) = C26_Sent
           /\ \A w \in DOMAIN workers : workers[w].pc # "panicked"
    /\ phase = "hashing" =>
           /\ ENABLED Next
           /\ \A w \in DOMAIN workers :
                  workers[w].pc \in {"pop", "loop"} =>
                      ENABLED (WorkerPop(w) \/ WorkerChunk(w) \/ WorkerFinish(w))
    /\ ui_thread.pc = "exited" =>
           /\ Senders = {}
           /\ progress_rx = <<>>
           /\ ui_thread.reported = SumLen(files)
    /\ HashPhaseOver =>
           /\ ui_thread.pc = "exited"
           /\ \A w \in DOMAIN workers : workers[w].pc = "exited"
           /\ tasks = <<>>
           /\ ui_thread.reported = SumLen(files)
           /\ ui_thread.reported = total_bytes

\* a worker ends exactly when it finds the queue empty, and the UI thread
\* ends in a step that finds no Sender left
C26_Step ==
    /\ \A w \in DOMAIN workers :
           (w \in DOMAIN workers' /\ workers'[w] # workers[w]
                /\ workers[w].pc = "pop") =>
               (workers'[w].pc = "exited" <=> tasks = <<>>)
    /\ (ui_thread.pc = "recv" /\ ui_thread'.pc = "exited") =>
           /\ ~progress_notify
           /\ \A w \in DOMAIN workers : workers[w].pc = "exited"

\* C26: with N >= 1 workers, any finite job list and no I/O failure the hash
\* phase always ends, without deadlock: a worker exits the first time it
\* finds the queue empty, a send never blocks a worker, and the UI thread
\* exits once the original Sender and every worker's clone are dropped,
\* having received every count sent, whose sum is the total of data bytes.
C26_HashPhaseTerminates ==
    /\ []C26_State
    /\ [][C26_Step]_vars
    /\ (phase = "hashing") ~> (phase = "hashed")

\* the hash phase has ended after several workers hashed several jobs and
\* the UI thread reported all their bytes
C26_Witness ==
    /\ phase = "hashed"
    /\ Cardinality(BusyWorkers) >= 2
    /\ Len(planned) >= 3
    /\ ui_thread.pc = "exited"
    /\ ui_thread.reported = SumLen(files) /\ ui_thread.reported > MAX_JOB_BYTES

\* the `files` list and `pieces` of the returned dictionary
C27_Files == ret.val["info"].val["files"].val
C27_Pieces == ret.val["info"].val["pieces"].val

C27_IsPad(k) == "attr" \in DOMAIN C27_Files[k].val
C27_Length(k) == C27_Files[k].val["length"].val

\* the sum of the lengths of the first k entries
RECURSIVE C27_SumUpTo(_)
C27_SumUpTo(k) == IF k = 0 THEN 0 ELSE C27_Length(k) + C27_SumUpTo(k - 1)

\* was this v1 digest taken over data followed by zero bytes
C27_ZeroFilled(d) ==
    /\ d # ZeroSlot
    /\ \E n \in DOMAIN d[3] : d[3][n][1] = "zeros"

\* the hash in `pieces` of the piece that holds the last byte of entry k
C27_FinalPiece(k) == C27_Pieces[CeilDiv(C27_SumUpTo(k), piece_size)]

\* C27: in every multi-file v1 output of the hybrid path, the sum of the
\* lengths of the entries before a real (non-padding) entry, padding
\* entries included, is a multiple of piece_size; `pieces` holds
\* ceil(sum of all entry lengths / piece_size) hashes; and a padding entry
\* follows a file exactly when the file's final v1 piece was hashed with
\* zero fill.
C27_FilesAgreeWithPieces ==
    (C7_MultiFileDone /\ write_v2) =>
        /\ \A k \in 1..Len(C27_Files) :
               ~C27_IsPad(k) =>
                   /\ C27_SumUpTo(k - 1) % piece_size = 0
                   /\ (k < Len(C27_Files) /\ C27_IsPad(k + 1))
                          <=> (C27_Length(k) > 0
                                   /\ C27_ZeroFilled(C27_FinalPiece(k)))
        /\ C27_IsPad(1) = FALSE
        /\ \A k \in 2..Len(C27_Files) : C27_IsPad(k) => ~C27_IsPad(k - 1)
        /\ Len(C27_Pieces) = CeilDiv(C27_SumUpTo(Len(C27_Files)), piece_size)

\* a list with a file of several pieces followed by a padding entry and
\* then a file with data, and a file that fills its last piece
C27_Witness ==
    /\ C7_MultiFileDone /\ write_v2
    /\ \E k \in 1..Len(C27_Files) :
           /\ ~C27_IsPad(k) /\ C27_Length(k) > piece_size
           /\ k + 2 <= Len(C27_Files)
           /\ C27_IsPad(k + 1)
           /\ C27_Length(k + 2) > 0
    /\ \E k \in 1..Len(C27_Files) :
           /\ ~C27_IsPad(k) /\ C27_Length(k) > 0
           /\ ~C27_ZeroFilled(C27_FinalPiece(k))

====
